---- MODULE Spec2Model ----
(***************************************************************************)
(* Model of the quiz-chain solver (llm-analysis-quiz-endpoint).            *)
(*                                                                         *)
(* The repository holds five generations of the same server.  Each is a    *)
(* value of the variable `variant`:                                        *)
(*   "chain"    src/unnamed/part_001 lines 1-466   (solveChain, guarded)   *)
(*   "deadline" src/unnamed/part_001 lines 468-715 (3 minute while loop)   *)
(*   "index"    src/index.js lines 1-539           (solveChain, unguarded) *)
(*   "index2"   src/index.js lines 541-696         (solveQuizPage, 10)     *)
(*   "part0"    src/unnamed/part_000               (solveQuizPage, 15)     *)
(***************************************************************************)
EXTENDS Integers, Sequences, FiniteSets, TLC

(***************************************************************************)
(* JavaScript values.  A primitive is [t, n, s]; a value adds the fields   *)
(* `o` of an object (all undefined for a primitive), so that property      *)
(* access on a string or a number yields undefined as it does in JS.       *)
(***************************************************************************)
UndefP == [t |-> "undef", n |-> 0, s |-> ""]
NullP  == [t |-> "null",  n |-> 0, s |-> ""]
NumP(k) == [t |-> "num", n |-> k, s |-> ""]
StrP(x) == [t |-> "str", n |-> 0, s |-> x]

NoFields ==
  [task |-> UndefP, answer |-> UndefP, submitUrl |-> UndefP, url |-> UndefP,
   submit |-> UndefP, preview |-> UndefP, error |-> UndefP,
   type |-> UndefP, text |-> UndefP, value |-> UndefP, sum |-> UndefP,
   table |-> UndefP, expected |-> UndefP, reason |-> UndefP,
   owner |-> UndefP, repo |-> UndefP, sha |-> UndefP,
   pathPrefix |-> UndefP, extension |-> UndefP]

Lift(p)  == [t |-> p.t, n |-> p.n, s |-> p.s, o |-> NoFields]
Undef    == Lift(UndefP)
Null     == Lift(NullP)
Num(k)   == Lift(NumP(k))
Str(x)   == Lift(StrP(x))
Obj(fs)  == [t |-> "obj", n |-> 0, s |-> "", o |-> fs]
Prim(v)  == [t |-> v.t, n |-> v.n, s |-> v.s]

\* JS truthiness (ToBoolean) of a value or primitive
Truthy(v) ==
  \/ v.t \in {"obj", "arr"}
  \/ v.t = "num" /\ v.n # 0
  \/ v.t = "str" /\ v.s # ""

\* JS property read v.f; every field of a non-object reads undefined
Get(v, f) == v.o[f]

\* a || b
Or(a, b) == IF Truthy(a) THEN a ELSE b

(***************************************************************************)
(* The addresses of the quiz service.                                      *)
(***************************************************************************)
QUIZ_BASE == "https://tds-llm-analysis.s-anand.net"
RootUrl   == "https://tds-llm-analysis.s-anand.net/project2"
SubmitUrl == "https://tds-llm-analysis.s-anand.net/submit"
UrlA      == "https://tds-llm-analysis.s-anand.net/project2-a"
UrlB      == "https://tds-llm-analysis.s-anand.net/project2-b"
UrlUv     == "https://tds-llm-analysis.s-anand.net/project2-uv"

\* startUrl.endsWith("/project2")
EndsWithProject2(u) == u = RootUrl

(***************************************************************************)
(* Texts.  The pages, scripts and payloads of the model are drawn from a   *)
(* finite universe of texts; JSON.parse, the brace regular expression and  *)
(* base64 decoding are tabulated on that universe.                         *)
(***************************************************************************)
TxMd        == "{\"task\":\"md\"}"
TxGit       == "{\"task\":\"git\",\"submitUrl\":\"https://tds-llm-analysis.s-anand.net/submit\"}"
TxExplicit  == "{\"answer\":42,\"url\":\"https://tds-llm-analysis.s-anand.net/submit\"}"
TxNoTarget  == "{\"answer\":7}"
TxNullAns   == "{\"answer\":null,\"submitUrl\":\"https://tds-llm-analysis.s-anand.net/submit\"}"
TxHeatmap   == "{\"task\":\"heatmap\",\"submitUrl\":\"https://tds-llm-analysis.s-anand.net/submit\"}"
TxUnknown   == "{\"task\":\"zzz\",\"submitUrl\":\"https://tds-llm-analysis.s-anand.net/submit\"}"
TxAudio     == "{\"task\":\"audio-passphrase\",\"submitUrl\":\"https://tds-llm-analysis.s-anand.net/submit\"}"
TxCsv       == "{\"task\":\"csv\",\"submitUrl\":\"https://tds-llm-analysis.s-anand.net/submit\"}"
TxTree      == "{\"task\":\"gh-tree\",\"owner\":\"o\",\"repo\":\"r\",\"sha\":\"abc\",\"pathPrefix\":\"docs/\",\"submitUrl\":\"https://tds-llm-analysis.s-anand.net/submit\"}"
TxZero      == "0"
TxNull      == "null"
TxJunk      == "hello world"
TxWrapped   == "<p>{\"task\":\"md\"}</p>"
TxTwoWrapped == "<p>{\"task\":\"md\"}</p><p>{\"task\":\"git\"}</p>"
TxTwoSpan    == "{\"task\":\"md\"}</p><p>{\"task\":\"git\"}"
TxBraces    == "<b>{oops}</b>"
TxOops      == "{oops}"
TxEmpty     == ""

Fields(task, answer, submitUrl, url) ==
  [NoFields EXCEPT !.task = task, !.answer = answer,
                   !.submitUrl = submitUrl, !.url = url]

\* JSON.parse(s): ok is FALSE where JSON.parse throws a SyntaxError
JsonParse(s) ==
  CASE s = TxMd       -> [ok |-> TRUE, v |-> Obj(Fields(StrP("md"), UndefP, UndefP, UndefP))]
    [] s = TxGit      -> [ok |-> TRUE, v |-> Obj(Fields(StrP("git"), UndefP, StrP(SubmitUrl), UndefP))]
    [] s = TxExplicit -> [ok |-> TRUE, v |-> Obj(Fields(UndefP, NumP(42), UndefP, StrP(SubmitUrl)))]
    [] s = TxNoTarget -> [ok |-> TRUE, v |-> Obj(Fields(UndefP, NumP(7), UndefP, UndefP))]
    [] s = TxNullAns  -> [ok |-> TRUE, v |-> Obj(Fields(UndefP, NullP, StrP(SubmitUrl), UndefP))]
    [] s = TxHeatmap  -> [ok |-> TRUE, v |-> Obj(Fields(StrP("heatmap"), UndefP, StrP(SubmitUrl), UndefP))]
    [] s = TxUnknown  -> [ok |-> TRUE, v |-> Obj(Fields(StrP("zzz"), UndefP, StrP(SubmitUrl), UndefP))]
    [] s = TxAudio    -> [ok |-> TRUE, v |-> Obj(Fields(StrP("audio-passphrase"), UndefP, StrP(SubmitUrl), UndefP))]
    [] s = TxCsv      -> [ok |-> TRUE, v |-> Obj(Fields(StrP("csv"), UndefP, StrP(SubmitUrl), UndefP))]
    [] s = TxTree     -> [ok |-> TRUE, v |-> Obj([Fields(StrP("gh-tree"), UndefP, StrP(SubmitUrl), UndefP)
                                                   EXCEPT !.owner = StrP("o"), !.repo = StrP("r"),
                                                          !.sha = StrP("abc"), !.pathPrefix = StrP("docs/")])]
    [] s = TxZero     -> [ok |-> TRUE, v |-> Num(0)]
    [] s = TxNull     -> [ok |-> TRUE, v |-> Null]
    [] OTHER          -> [ok |-> FALSE, v |-> Undef]

\* function safeJsonParse(s) { try { return JSON.parse(s); } catch { return null; } }
safeJsonParse(s) == IF JsonParse(s).ok THEN JsonParse(s).v ELSE Null

\* s.match(/\{[\s\S]*\}/): the text from the first "{" to the last "}",
\* NoMatch where the text has no such span
NoMatch == "<no match>"
BraceMatch(s) ==
  CASE s = TxWrapped -> TxMd
    [] s = TxTwoWrapped -> TxTwoSpan
    [] s = TxTwoSpan -> TxTwoSpan
    [] s = TxBraces  -> TxOops
    [] s = TxOops    -> TxOops
    [] s \in {TxMd, TxGit, TxExplicit, TxNoTarget, TxNullAns, TxHeatmap, TxUnknown,
              TxAudio, TxCsv, TxTree} -> s
    [] OTHER         -> NoMatch

\* String.prototype.trim on the texts of the universe
TxMdPadded == "  {\"task\":\"md\"}  "
TxBlank    == "   "
Trim(s) ==
  CASE s = TxMdPadded -> TxMd
    [] s = TxBlank    -> TxEmpty
    [] OTHER          -> s

\* Inline scripts; the match of the atob pattern (an atob call on a literal
\* in back, double or single quotes) yields the quoted literal
\* (m[2] || m[3] || m[4]), NoMatch where nothing matches
ScPlain     == "console.log(1)"
ScAtobMd    == "r.innerHTML = atob(\"eyJ0YXNrIjoibWQifQ==\")"
ScAtobWrap  == "r.innerHTML = atob('PHA+eyJ0YXNrIjoibWQifTwvcD4=')"
ScAtobJunk  == "r.innerHTML = atob('aGVsbG8gd29ybGQ=')"
ScAtobNull  == "r.innerHTML = atob(\"bnVsbA==\")"
ScAtobTwo   == "r.innerHTML = atob('PHA+eyJ0YXNrIjoibWQifTwvcD48cD57InRhc2siOiJnaXQifTwvcD4=')"
ScAtobExpl  == "r.innerHTML = atob(\"eyJhbnN3ZXIiOjQyLCJ1cmwiOiJodHRwczovL3Rkcy1sbG0tYW5hbHlzaXMucy1hbmFuZC5uZXQvc3VibWl0In0=\")"
AtobLiteral(s) ==
  CASE s = ScAtobMd   -> "eyJ0YXNrIjoibWQifQ=="
    [] s = ScAtobWrap -> "PHA+eyJ0YXNrIjoibWQifTwvcD4="
    [] s = ScAtobJunk -> "aGVsbG8gd29ybGQ="
    [] s = ScAtobNull -> "bnVsbA=="
    [] s = ScAtobTwo  -> "PHA+eyJ0YXNrIjoibWQifTwvcD48cD57InRhc2siOiJnaXQifTwvcD4="
    [] s = ScAtobExpl -> "eyJhbnN3ZXIiOjQyLCJ1cmwiOiJodHRwczovL3Rkcy1sbG0tYW5hbHlzaXMucy1hbmFuZC5uZXQvc3VibWl0In0="
    [] OTHER          -> NoMatch

\* Buffer.from(b64, "base64").toString("utf8")
Base64Decode(b) ==
  CASE b = "eyJ0YXNrIjoibWQifQ=="         -> TxMd
    [] b = "PHA+eyJ0YXNrIjoibWQifTwvcD4=" -> TxWrapped
    [] b = "aGVsbG8gd29ybGQ="             -> TxJunk
    [] b = "bnVsbA=="                     -> TxNull
    [] b = "PHA+eyJ0YXNrIjoibWQifTwvcD48cD57InRhc2siOiJnaXQifTwvcD4=" -> TxTwoWrapped
    [] b = "eyJhbnN3ZXIiOjQyLCJ1cmwiOiJodHRwczovL3Rkcy1sbG0tYW5hbHlzaXMucy1hbmFuZC5uZXQvc3VibWl0In0=" -> TxExplicit
    [] OTHER                              -> TxEmpty

(***************************************************************************)
(* A rendered page, as the renderer exposes it to the solver:              *)
(*   pres     innerText of every <pre>, in document order                  *)
(*   result   innerHTML of #result, NoElement when the page has none       *)
(*   scripts  innerText of every <script>                                  *)
(*   html     page.content()                                               *)
(*   links    href of every a[href]                                        *)
(*   img      what loading the first <img src> in a canvas comes to        *)
(*   fails    the page queries that reject (execution context destroyed,   *)
(*            page crashed) when the solver makes them                     *)
(***************************************************************************)
NoElement == "<no element>"

\* hrefs of the links of the pages
CsvLink   == "https://tds-llm-analysis.s-anand.net/project2/messy.csv"
OtherLink == "https://example.com/about"

\* the text served at CsvLink
CsvText == "id,name,joined,value\n2,bob,2023-02-01,20\n1,alice,2023-01-01,10"

\* a <table> of a page: the text of its th cells and of the td cells of its
\* tbody rows
ValueTable == [headers |-> <<"id", "value">>,
               rows |-> <<(<<"1", "10">>), (<<"2", "$20">>)>>]

\* a table whose "value" column sums to 0
ZeroTable == [headers |-> <<"id", "value">>, rows |-> <<(<<"7", "0">>)>>]

\* page.content() of the pages of the model
HtmlBase ==
  "<html><head></head><body><p>nothing here</p></body></html>"
HtmlMd ==
  "<html><head></head><body><pre>{\"task\":\"md\"}</pre><a href=\"https://example.com/about\">about</a><a href=\"https://tds-llm-analysis.s-anand.net/submit\">submit</a></body></html>"
HtmlGit ==
  "<html><head></head><body><pre>{\"task\":\"git\",\"submitUrl\":\"https://tds-llm-analysis.s-anand.net/submit\"}</pre></body></html>"
HtmlExplicit ==
  "<html><head></head><body><pre>{\"answer\":42,\"url\":\"https://tds-llm-analysis.s-anand.net/submit\"}</pre></body></html>"
HtmlNoTarget ==
  "<html><head></head><body><pre>{\"answer\":7}</pre></body></html>"
HtmlNullAns ==
  "<html><head></head><body><pre>{\"answer\":null,\"submitUrl\":\"https://tds-llm-analysis.s-anand.net/submit\"}</pre></body></html>"
HtmlHeatLoad ==
  "<html><head></head><body><pre>{\"task\":\"heatmap\",\"submitUrl\":\"https://tds-llm-analysis.s-anand.net/submit\"}</pre><img src=\"heatmap.png\"></body></html>"
HtmlZeroFirst ==
  "<html><head></head><body><pre>0</pre><pre>{\"task\":\"md\"}</pre><a href=\"https://tds-llm-analysis.s-anand.net/submit\">submit</a></body></html>"
HtmlNullOnly ==
  "<html><head></head><body><pre>null</pre></body></html>"
HtmlScript ==
  "<html><head><script>console.log(1)</script><script>r.innerHTML = atob(\"eyJhbnN3ZXIiOjQyLCJ1cmwiOiJodHRwczovL3Rkcy1sbG0tYW5hbHlzaXMucy1hbmFuZC5uZXQvc3VibWl0In0=\")</script></head><body><pre>hello world</pre><div id=\"result\">hello world</div></body></html>"
HtmlPreScript ==
  "<html><head><script>r.innerHTML = atob(\"eyJhbnN3ZXIiOjQyLCJ1cmwiOiJodHRwczovL3Rkcy1sbG0tYW5hbHlzaXMucy1hbmFuZC5uZXQvc3VibWl0In0=\")</script></head><body><pre>{\"task\":\"md\"}</pre><div id=\"result\">hello world</div><a href=\"https://tds-llm-analysis.s-anand.net/submit\">submit</a></body></html>"
HtmlTable ==
  "<html><head></head><body><pre>{\"task\":\"zzz\",\"submitUrl\":\"https://tds-llm-analysis.s-anand.net/submit\"}</pre><table><thead><tr><th>id</th><th>value</th></tr></thead><tbody><tr><td>1</td><td>10</td></tr><tr><td>2</td><td>$20</td></tr></tbody></table></body></html>"
HtmlZeroTable ==
  "<html><head></head><body><pre>{\"task\":\"zzz\",\"submitUrl\":\"https://tds-llm-analysis.s-anand.net/submit\"}</pre><table><thead><tr><th>id</th><th>value</th></tr></thead><tbody><tr><td>7</td><td>0</td></tr></tbody></table></body></html>"
HtmlValueText ==
  "<html><head></head><body><p>total value: 12 and value 30</p><a href=\"https://tds-llm-analysis.s-anand.net/submit\">submit</a></body></html>"
HtmlDivJson ==
  "<html><head></head><body><p>{\"task\":\"md\"}</p></body></html>"
HtmlResultWrapped ==
  "<html><head><script>console.log(1)</script></head><body><div id=\"result\"><p>{\"task\":\"md\"}</p></div></body></html>"
HtmlTwoPre ==
  "<html><head></head><body><pre>{\"task\":\"md\"}</pre><pre>{\"task\":\"git\",\"submitUrl\":\"https://tds-llm-analysis.s-anand.net/submit\"}</pre></body></html>"
HtmlPass ==
  "<html><head></head><body><p>Transcript: first part 219</p><pre>{\"task\":\"audio-passphrase\",\"submitUrl\":\"https://tds-llm-analysis.s-anand.net/submit\"}</pre></body></html>"
HtmlCsv ==
  "<html><head></head><body><pre>{\"task\":\"csv\",\"submitUrl\":\"https://tds-llm-analysis.s-anand.net/submit\"}</pre><a href=\"https://tds-llm-analysis.s-anand.net/project2/messy.csv\">messy.csv</a></body></html>"
HtmlTree ==
  "<html><head></head><body><pre>{\"task\":\"gh-tree\",\"owner\":\"o\",\"repo\":\"r\",\"sha\":\"abc\",\"pathPrefix\":\"docs/\",\"submitUrl\":\"https://tds-llm-analysis.s-anand.net/submit\"}</pre></body></html>"

\* page.innerText("body") of the pages of the model, where it is not one of
\* the texts above
BodyBase ==
  "nothing here"
BodyMd ==
  "{\"task\":\"md\"}\nabout\nsubmit"
BodyZeroFirst ==
  "0\n{\"task\":\"md\"}\nsubmit"
BodyScript ==
  "hello world\nhello world"
BodyPreScript ==
  "{\"task\":\"md\"}\nhello world\nsubmit"
BodyTable ==
  "{\"task\":\"zzz\",\"submitUrl\":\"https://tds-llm-analysis.s-anand.net/submit\"}\nid\tvalue\n1\t10\n2\t$20"
BodyZeroTable ==
  "{\"task\":\"zzz\",\"submitUrl\":\"https://tds-llm-analysis.s-anand.net/submit\"}\nid\tvalue\n7\t0"
BodyValueText ==
  "total value: 12 and value 30\nsubmit"
BodyTwoPre ==
  "{\"task\":\"md\"}\n{\"task\":\"git\",\"submitUrl\":\"https://tds-llm-analysis.s-anand.net/submit\"}"
BodyPass ==
  "Transcript: first part 219\n{\"task\":\"audio-passphrase\",\"submitUrl\":\"https://tds-llm-analysis.s-anand.net/submit\"}"
BodyCsv ==
  "{\"task\":\"csv\",\"submitUrl\":\"https://tds-llm-analysis.s-anand.net/submit\"}\nmessy.csv"

\* body.match(/\{[\s\S]*\}/) on a document: the span from its first "{" to
\* its last "}"
HtmlBraceMatch(h) ==
  CASE h = HtmlMd -> TxMd
    [] h = HtmlGit -> TxGit
    [] h = HtmlExplicit -> TxExplicit
    [] h = HtmlNoTarget -> TxNoTarget
    [] h = HtmlNullAns -> TxNullAns
    [] h = HtmlHeatLoad -> TxHeatmap
    [] h = HtmlZeroFirst -> TxMd
    [] h = HtmlPreScript -> TxMd
    [] h = HtmlTable -> TxUnknown
    [] h = HtmlZeroTable -> TxUnknown
    [] h = HtmlDivJson -> TxMd
    [] h = HtmlResultWrapped -> TxMd
    [] h = HtmlTwoPre -> "{\"task\":\"md\"}</pre><pre>{\"task\":\"git\",\"submitUrl\":\"https://tds-llm-analysis.s-anand.net/submit\"}"
    [] h = HtmlPass -> TxAudio
    [] h = HtmlCsv -> TxCsv
    [] h = HtmlTree -> TxTree
    [] OTHER -> NoMatch

\* body.slice(0, 200)
Slice200(h) ==
  CASE h = HtmlScript ->
         "<html><head><script>console.log(1)</script><script>r.innerHTML = atob(\"eyJhbnN3ZXIiOjQyLCJ1cmwiOiJodHRwczovL3Rkcy1sbG0tYW5hbHlzaXMucy1hbmFuZC5uZXQvc3VibWl0In0=\")</script></head><body><pre>hello world<"
    [] h = HtmlPreScript ->
         "<html><head><script>r.innerHTML = atob(\"eyJhbnN3ZXIiOjQyLCJ1cmwiOiJodHRwczovL3Rkcy1sbG0tYW5hbHlzaXMucy1hbmFuZC5uZXQvc3VibWl0In0=\")</script></head><body><pre>{\"task\":\"md\"}</pre><div id=\"result\">hello w"
    [] h = HtmlTable ->
         "<html><head></head><body><pre>{\"task\":\"zzz\",\"submitUrl\":\"https://tds-llm-analysis.s-anand.net/submit\"}</pre><table><thead><tr><th>id</th><th>value</th></tr></thead><tbody><tr><td>1</td><td>10</td></tr"
    [] h = HtmlCsv ->
         "<html><head></head><body><pre>{\"task\":\"csv\",\"submitUrl\":\"https://tds-llm-analysis.s-anand.net/submit\"}</pre><a href=\"https://tds-llm-analysis.s-anand.net/project2/messy.csv\">messy.csv</a></body></html"
    [] OTHER -> IF Len(h) > 200 THEN SubSeq(h, 1, 200) ELSE h

\* html.match(/https?:\/\/[\w\-:/.?=&%]+\/submit[\w\-:/.?=&%]*/i): the first
\* absolute URL of the document with /submit in its path
HtmlSubmitMatch(h) ==
  IF h \in {HtmlMd, HtmlGit, HtmlExplicit, HtmlNullAns, HtmlHeatLoad, HtmlZeroFirst, HtmlPreScript, HtmlTable, HtmlZeroTable, HtmlValueText, HtmlTwoPre, HtmlPass, HtmlCsv, HtmlTree}
  THEN SubmitUrl ELSE NoMatch

\* the literal of the first atob call of the document
HtmlAtobLiteral(h) ==
  CASE h = HtmlScript -> "eyJhbnN3ZXIiOjQyLCJ1cmwiOiJodHRwczovL3Rkcy1sbG0tYW5hbHlzaXMucy1hbmFuZC5uZXQvc3VibWl0In0="
    [] h = HtmlPreScript -> "eyJhbnN3ZXIiOjQyLCJ1cmwiOiJodHRwczovL3Rkcy1sbG0tYW5hbHlzaXMucy1hbmFuZC5uZXQvc3VibWl0In0="
    [] OTHER -> NoMatch

\* texts that only previews carry
TxUvText == "Run: uv http get the endpoint"
TxPassText == "Listen and type the passphrase"
TxShaText == "Count the files under the sha given"

Mentions(t) ==
  CASE t \in {TxHeatmap, Slice200(HtmlHeatLoad)} ->
         {"heat"}
    [] t \in {TxAudio, Slice200(HtmlPass), TxPassText} ->
         {"pass"}
    [] t \in {TxTree, Slice200(HtmlTree), TxShaText} ->
         {"ghtree", "tree"}
    [] t \in {Slice200(HtmlCsv)} ->
         {"csv"}
    [] t \in {TxUvText} ->
         {"uv"}
    [] OTHER -> {}

\* t.includes(",")
HasComma(t) ==
  t \in {TxGit, TxExplicit, TxNullAns, TxHeatmap, TxUnknown, TxAudio, TxCsv, TxTree, BodyTable, BodyZeroTable, BodyTwoPre, BodyPass, BodyCsv, CsvText}

\* bodyText.toLowerCase().match(/([a-z]{2,}(?:\s+[a-z]{2,}){0,2})\s+(\d{3})/i):
\* m[1].trim() + " " + m[2], lower-cased
AudioMatchChain(b) ==
  CASE b = BodyPass -> "first part 219"
    [] OTHER -> NoMatch

\* bodyText.match(/([a-z]{3,}\s+[a-z]{3,})\s+(\d{3})/i): m[1].toLowerCase() + " " + m[2]
AudioMatchIndex(b) ==
  CASE b = BodyPass -> "first part 219"
    [] OTHER -> NoMatch

\* bodyText.match(/([a-z]+(?:\s+[a-z]+)*)\s+(\d{3})/i): m[1].toLowerCase() + " " + m[2]
AudioFallbackIndex(b) ==
  CASE b = BodyPass -> "first part 219"
    [] OTHER -> NoMatch

\* [...bodyText.matchAll(/value[^0-9\-]*([0-9.,]+)/gi)].map(g => g[1])
ValueMatches(b) ==
  CASE b = BodyTable -> <<"1">>
    [] b = BodyZeroTable -> <<"7">>
    [] b = BodyValueText -> <<"12", "30">>
    [] b = CsvText -> <<"2,">>
    [] OTHER -> <<>>

\* the pages
BasePage ==
  [pres |-> <<>>, result |-> NoElement, scripts |-> <<>>,
   html |-> HtmlBase, bodyText |-> BodyBase,
   links |-> <<>>, img |-> "none", tables |-> <<>>, fails |-> {}]
PMd ==
  [pres |-> <<TxMd>>, result |-> NoElement, scripts |-> <<>>,
   html |-> HtmlMd, bodyText |-> BodyMd,
   links |-> <<OtherLink, SubmitUrl>>, img |-> "none", tables |-> <<>>, fails |-> {}]
PGit ==
  [pres |-> <<TxGit>>, result |-> NoElement, scripts |-> <<>>,
   html |-> HtmlGit, bodyText |-> TxGit,
   links |-> <<>>, img |-> "none", tables |-> <<>>, fails |-> {}]
PExplicit ==
  [pres |-> <<TxExplicit>>, result |-> NoElement, scripts |-> <<>>,
   html |-> HtmlExplicit, bodyText |-> TxExplicit,
   links |-> <<>>, img |-> "none", tables |-> <<>>, fails |-> {}]
PNoTarget ==
  [pres |-> <<TxNoTarget>>, result |-> NoElement, scripts |-> <<>>,
   html |-> HtmlNoTarget, bodyText |-> TxNoTarget,
   links |-> <<>>, img |-> "none", tables |-> <<>>, fails |-> {}]
PNullAns ==
  [pres |-> <<TxNullAns>>, result |-> NoElement, scripts |-> <<>>,
   html |-> HtmlNullAns, bodyText |-> TxNullAns,
   links |-> <<>>, img |-> "none", tables |-> <<>>, fails |-> {}]
PHeatLoad ==
  [pres |-> <<TxHeatmap>>, result |-> NoElement, scripts |-> <<>>,
   html |-> HtmlHeatLoad, bodyText |-> TxHeatmap,
   links |-> <<>>, img |-> "loaded", tables |-> <<>>, fails |-> {}]
PHeatErr ==
  [pres |-> <<TxHeatmap>>, result |-> NoElement, scripts |-> <<>>,
   html |-> HtmlHeatLoad, bodyText |-> TxHeatmap,
   links |-> <<>>, img |-> "error", tables |-> <<>>, fails |-> {}]
PZeroFirst ==
  [pres |-> <<TxZero, TxMd>>, result |-> NoElement, scripts |-> <<>>,
   html |-> HtmlZeroFirst, bodyText |-> BodyZeroFirst,
   links |-> <<SubmitUrl>>, img |-> "none", tables |-> <<>>, fails |-> {}]
PNullOnly ==
  [pres |-> <<TxNull>>, result |-> NoElement, scripts |-> <<>>,
   html |-> HtmlNullOnly, bodyText |-> TxNull,
   links |-> <<>>, img |-> "none", tables |-> <<>>, fails |-> {}]
PScript ==
  [pres |-> <<TxJunk>>, result |-> TxJunk, scripts |-> <<ScPlain, ScAtobExpl>>,
   html |-> HtmlScript, bodyText |-> BodyScript,
   links |-> <<>>, img |-> "none", tables |-> <<>>, fails |-> {}]
PPreScript ==
  [pres |-> <<TxMd>>, result |-> TxJunk, scripts |-> <<ScAtobExpl>>,
   html |-> HtmlPreScript, bodyText |-> BodyPreScript,
   links |-> <<SubmitUrl>>, img |-> "none", tables |-> <<>>, fails |-> {}]
PTable ==
  [pres |-> <<TxUnknown>>, result |-> NoElement, scripts |-> <<>>,
   html |-> HtmlTable, bodyText |-> BodyTable,
   links |-> <<>>, img |-> "none", tables |-> <<ValueTable>>, fails |-> {}]
PZeroTable ==
  [pres |-> <<TxUnknown>>, result |-> NoElement, scripts |-> <<>>,
   html |-> HtmlZeroTable, bodyText |-> BodyZeroTable,
   links |-> <<>>, img |-> "none", tables |-> <<ZeroTable>>, fails |-> {}]
PValueText ==
  [pres |-> <<>>, result |-> NoElement, scripts |-> <<>>,
   html |-> HtmlValueText, bodyText |-> BodyValueText,
   links |-> <<SubmitUrl>>, img |-> "none", tables |-> <<>>, fails |-> {}]
PDivJson ==
  [pres |-> <<>>, result |-> NoElement, scripts |-> <<>>,
   html |-> HtmlDivJson, bodyText |-> TxMd,
   links |-> <<>>, img |-> "none", tables |-> <<>>, fails |-> {}]
PResultWrapped ==
  [pres |-> <<>>, result |-> TxWrapped, scripts |-> <<ScPlain>>,
   html |-> HtmlResultWrapped, bodyText |-> TxMd,
   links |-> <<>>, img |-> "none", tables |-> <<>>, fails |-> {}]
PTwoPre ==
  [pres |-> <<TxMd, TxGit>>, result |-> NoElement, scripts |-> <<>>,
   html |-> HtmlTwoPre, bodyText |-> BodyTwoPre,
   links |-> <<>>, img |-> "none", tables |-> <<>>, fails |-> {}]
PPass ==
  [pres |-> <<TxAudio>>, result |-> NoElement, scripts |-> <<>>,
   html |-> HtmlPass, bodyText |-> BodyPass,
   links |-> <<>>, img |-> "none", tables |-> <<>>, fails |-> {}]
PCsv ==
  [pres |-> <<TxCsv>>, result |-> NoElement, scripts |-> <<>>,
   html |-> HtmlCsv, bodyText |-> BodyCsv,
   links |-> <<CsvLink>>, img |-> "none", tables |-> <<>>, fails |-> {}]
PTree ==
  [pres |-> <<TxTree>>, result |-> NoElement, scripts |-> <<>>,
   html |-> HtmlTree, bodyText |-> TxTree,
   links |-> <<>>, img |-> "none", tables |-> <<>>, fails |-> {}]

\* the last pre text from i on that parses to a truthy value; 0 if none
LastTruthyPre(pres, i) ==
  IF \A k \in i..Len(pres) : ~Truthy(safeJsonParse(Trim(pres[k]))) THEN 0
  ELSE CHOOSE k \in i..Len(pres) :
         /\ Truthy(safeJsonParse(Trim(pres[k])))
         /\ \A m \in (k + 1)..Len(pres) : ~Truthy(safeJsonParse(Trim(pres[m])))

\* the first pre text, after trim, that parses to a truthy value; 0 if none
RECURSIVE FirstTruthyPre(_, _)
FirstTruthyPre(pres, i) ==
  IF i > Len(pres) THEN 0
  ELSE IF Truthy(safeJsonParse(Trim(pres[i]))) THEN i
  ELSE FirstTruthyPre(pres, i + 1)

\* the first script whose text matches the atob pattern; 0 if none
RECURSIVE FirstAtobScript(_, _)
FirstAtobScript(scripts, i) ==
  IF i > Len(scripts) THEN 0
  ELSE IF AtobLiteral(scripts[i]) # NoMatch THEN i
  ELSE FirstAtobScript(scripts, i + 1)

\* page.$eval("#result", el => el.innerHTML).catch(() => null)
ResultHtml(p) ==
  IF "result" \in p.fails \/ p.result = NoElement THEN NoElement ELSE p.result

\* resultHtml && resultHtml.trim().length > 0
HasResult(p) == ResultHtml(p) # NoElement /\ Trim(ResultHtml(p)) # TxEmpty

(***************************************************************************)
(* extractInstructionFromPage of the "chain" variant.  The result is       *)
(*   [kind |-> "json",    json |-> value, text |-> raw]                    *)
(*   [kind |-> "preview", json |-> Undef, text |-> preview]                *)
(*   [kind |-> "null"]    (return null)   [kind |-> "throw"] (rejects)     *)
(***************************************************************************)
XJson(j, raw) == [kind |-> "json", json |-> j, text |-> raw]
XPreview(t)   == [kind |-> "preview", json |-> Undef, text |-> t]
XNull         == [kind |-> "null", json |-> Undef, text |-> TxEmpty]
XThrow        == [kind |-> "throw", json |-> Undef, text |-> TxEmpty]

\* a recovery that parses nothing and hands the decoded text on as preview
DecodedAsPreview(decoded) == XPreview(decoded)

\* what the decoded literal of a script comes to (part_001 lines 95-104)
DecodedInstruction(decoded) ==
  IF Truthy(safeJsonParse(decoded)) THEN XJson(safeJsonParse(decoded), decoded)
  ELSE IF BraceMatch(decoded) # NoMatch /\ Truthy(safeJsonParse(BraceMatch(decoded)))
       THEN XJson(safeJsonParse(BraceMatch(decoded)), BraceMatch(decoded))
  ELSE XPreview(decoded)

\* strategy 4 (part_001 lines 120-130)
ChainStrategy4(p) ==
  IF "content" \in p.fails THEN XNull
  ELSE IF HtmlBraceMatch(p.html) # NoMatch /\ Truthy(safeJsonParse(HtmlBraceMatch(p.html)))
       THEN XJson(safeJsonParse(HtmlBraceMatch(p.html)), HtmlBraceMatch(p.html))
  ELSE XPreview(Slice200(p.html))

\* strategies 2 and 3, one try block (part_001 lines 85-117)
ChainStrategy23(p) ==
  IF ~HasResult(p) THEN ChainStrategy4(p)
  ELSE IF "script" \in p.fails THEN ChainStrategy4(p)
  ELSE IF FirstAtobScript(p.scripts, 1) # 0
       THEN DecodedInstruction(
              Base64Decode(AtobLiteral(p.scripts[FirstAtobScript(p.scripts, 1)])))
  ELSE IF BraceMatch(ResultHtml(p)) # NoMatch
          /\ Truthy(safeJsonParse(BraceMatch(ResultHtml(p))))
       THEN XJson(safeJsonParse(BraceMatch(ResultHtml(p))), BraceMatch(ResultHtml(p)))
  ELSE XPreview(ResultHtml(p))

extractInstructionFromPage(p) ==
  IF "pre" \notin p.fails /\ FirstTruthyPre(p.pres, 1) # 0
  THEN XJson(safeJsonParse(Trim(p.pres[FirstTruthyPre(p.pres, 1)])),
             Trim(p.pres[FirstTruthyPre(p.pres, 1)]))
  ELSE ChainStrategy23(p)

(***************************************************************************)
(* extractInstructionFromPage of the "index" variant (index.js 79-124):    *)
(* no try block, the instruction itself is returned (not {json, raw}),     *)
(* and there is no full-document strategy.  The result is                  *)
(*   [threw |-> TRUE] or [threw |-> FALSE, v |-> value], v Null for null.   *)
(***************************************************************************)
IThrow     == [threw |-> TRUE, v |-> Undef]
IReturn(v) == [threw |-> FALSE, v |-> v]
PreviewObj(t) == Obj([NoFields EXCEPT !.preview = StrP(t)])

DecodedInstructionIndex(decoded) ==
  IF Truthy(safeJsonParse(decoded)) THEN IReturn(safeJsonParse(decoded))
  ELSE IF BraceMatch(decoded) # NoMatch /\ Truthy(safeJsonParse(BraceMatch(decoded)))
       THEN IReturn(safeJsonParse(BraceMatch(decoded)))
  ELSE IReturn(PreviewObj(decoded))

extractInstructionFromPageIndex(p) ==
  IF "pre" \in p.fails THEN IThrow
  ELSE IF FirstTruthyPre(p.pres, 1) # 0
       THEN IReturn(safeJsonParse(Trim(p.pres[FirstTruthyPre(p.pres, 1)])))
  ELSE IF ~HasResult(p) THEN IReturn(Null)
  ELSE IF "script" \in p.fails THEN IThrow
  ELSE IF FirstAtobScript(p.scripts, 1) # 0
       THEN DecodedInstructionIndex(
              Base64Decode(AtobLiteral(p.scripts[FirstAtobScript(p.scripts, 1)])))
  ELSE IF BraceMatch(ResultHtml(p)) # NoMatch
          /\ Truthy(safeJsonParse(BraceMatch(ResultHtml(p))))
       THEN IReturn(safeJsonParse(BraceMatch(ResultHtml(p))))
  ELSE IReturn(PreviewObj(ResultHtml(p)))

(***************************************************************************)
(* extractJsonFromPage of the "part0" variant (part_000 14-35): the first  *)
(* <pre> only, JSON.parse of its untrimmed innerText; page.$ and innerText *)
(* are outside any try block.                                              *)
(***************************************************************************)
extractJsonFromPage(p) ==
  IF "pre" \in p.fails THEN XThrow
  ELSE IF Len(p.pres) = 0 THEN XNull
  ELSE IF JsonParse(p.pres[1]).ok THEN XJson(JsonParse(p.pres[1]).v, p.pres[1])
  ELSE XNull

(***************************************************************************)
(* Keyword tests of the task classification.  Mentions(t) is the set of    *)
(* patterns that match the lower-cased text t:                             *)
(*   "uv"      /uv http get/i          "git"   /env.sample/i               *)
(*   "md"      includes("data-preparation.md")                             *)
(*   "pass"    /passphrase/i           "heat"  /heatmap/i                  *)
(*   "csv"     includes("messy.csv") or /normalize to json/i               *)
(*   "tree"    /git.*tree|pathprefix|sha/i                                 *)
(***************************************************************************)
\* currentUrl.includes(k) for k in "uv", "audio-passphrase", "heatmap",
\* "csv", "gh-tree"
UrlMentions(u) ==
  CASE u = UrlUv -> {"uv"}
    [] OTHER     -> {}

\* function solveUV(email)
solveUV(email) ==
  Str("uv http get https://tds-llm-analysis.s-anand.net/project2/uv.json?email="
      \o email \o " -H \"Accept: application/json\"")

\* function solveGit()
solveGit == Str("git add env.sample\ngit commit -m \"chore: keep env sample\"")

\* function solveMD()
solveMD == Str("/project2/data-preparation.md")

\* solveAudioPassphrase of the "chain" variant (part_001 148-156): the
\* match on the lower-cased body text, null when the query fails or nothing
\* matches
solveAudioPassphrase(p) ==
  IF "body" \in p.fails THEN Null
  ELSE IF AudioMatchChain(p.bodyText) # NoMatch THEN Str(AudioMatchChain(p.bodyText))
  ELSE Null

(***************************************************************************)
(* solveHeatmapInPage.  The promise built inside page.evaluate is resolved *)
(* by onerror and by the catch block of onload only; the onload handler    *)
(* that computes the colour returns it from the handler and never calls    *)
(* resolve, so the promise stays pending.  p.img is                        *)
(*   "none"     no <img src>            "error"   the load fails           *)
(*   "tainted"  getImageData throws     "loaded"  the pixels are read      *)
(* The result is [out |-> "ok", v |-> value] or [out |-> "pending"].       *)
(***************************************************************************)
Returned(v) == [out |-> "ok", v |-> v]
Pending     == [out |-> "pending", v |-> Undef]
Threw       == [out |-> "throw", v |-> Undef]

solveHeatmapInPage(p) ==
  IF "img" \in p.fails \/ p.img = "none" THEN Returned(Null)
  ELSE IF p.img \in {"error", "tainted"} THEN Returned(Null)
  ELSE Pending

(***************************************************************************)
(* CSV sources and tables of a page.                                       *)
(***************************************************************************)
\* /\.csv(\?|$)/i.test(u)
IsCsvLink(u) == u = CsvLink
\* u.includes("/submit")
IncludesSubmit(u) == u = SubmitUrl

\* the array normalizeCSVText(t) returns, named by its source text
Arr(t) == [t |-> "arr", n |-> 0, s |-> t, o |-> NoFields]

\* index of the first element of seq equal to x, 0 if none
RECURSIVE IndexOf(_, _, _)
IndexOf(seq, x, i) ==
  IF i > Len(seq) THEN 0
  ELSE IF seq[i] = x THEN i
  ELSE IndexOf(seq, x, i + 1)

\* index of the first element of seq that satisfies Test, 0 if none
RECURSIVE FindIndex(_, _, _)
FindIndex(seq, Test(_), i) ==
  IF i > Len(seq) THEN 0
  ELSE IF Test(seq[i]) THEN i
  ELSE FindIndex(seq, Test, i + 1)

\* solveCSVFromPage of the "chain" variant (part_001 229-247); csvFetch is
\* what fetchText(csvUrl) comes to: "fail" or the text of the resource
solveCSVFromPage(p, csvFetch) ==
  LET links == IF "links" \in p.fails THEN <<>> ELSE p.links
      pres  == IF "pre" \in p.fails THEN <<>> ELSE p.pres
      body  == IF "body" \in p.fails THEN TxEmpty ELSE p.bodyText
  IN  IF FindIndex(links, IsCsvLink, 1) # 0
      THEN IF csvFetch = "fail" THEN Null ELSE Arr(csvFetch)
      ELSE IF FindIndex(pres, HasComma, 1) # 0
           THEN Arr(pres[FindIndex(pres, HasComma, 1)])
      ELSE IF HasComma(body) THEN Arr(body)
      ELSE Null

\* parseFloat(cell.replace(/[^\d.-]/g, "")) || 0
CellNumber(c) ==
  CASE c = "10"    -> 10
    [] c = "$20"   -> 20
    [] c = "1,000" -> 1000
    [] OTHER       -> 0

RECURSIVE SumColumn(_, _, _)
SumColumn(rows, idx, i) ==
  IF i > Len(rows) THEN 0
  ELSE CellNumber(rows[i][idx]) + SumColumn(rows, idx, i + 1)

\* some row of the table has no cell at position idx (cells[idx] undefined)
ShortRow(rows, idx) == \E i \in 1..Len(rows) : Len(rows[i]) < idx

\* the table-sum callback of the fallback branch (part_001 379-392): the
\* first table with a "value" header decides; Threw where a row is short
RECURSIVE TableSum(_, _)
TableSum(tables, i) ==
  IF i > Len(tables) THEN Returned(Null)
  ELSE LET idx == IndexOf(tables[i].headers, "value", 1)
       IN  IF idx = 0 THEN TableSum(tables, i + 1)
           ELSE IF ShortRow(tables[i].rows, idx) THEN Threw
           ELSE Returned(Num(SumColumn(tables[i].rows, idx, 1)))

(***************************************************************************)
(* gh-tree.  The listing of the tree API is a sequence of paths; gh is     *)
(* [ok |-> FALSE] (request fails or !r.ok) or [ok |-> TRUE, tree |-> l].   *)
(***************************************************************************)
StartsWith(path, prefix) ==
  \/ prefix = ""
  \/ prefix = "docs/" /\ path \in {"docs/a.md", "docs/b.txt", "docs/d.md"}

EndsWith(path, ext) ==
  \/ ext = ""
  \/ ext = ".md"  /\ path \in {"docs/a.md", "docs/d.md", "src/c.md"}
  \/ ext = ".txt" /\ path \in {"docs/b.txt"}

RECURSIVE CountMatching(_, _, _, _)
CountMatching(list, prefix, ext, i) ==
  IF i > Len(list) THEN 0
  ELSE (IF StartsWith(list[i], prefix) /\ EndsWith(list[i], ext) THEN 1 ELSE 0)
       + CountMatching(list, prefix, ext, i + 1)

\* a ?? b on primitives
Coalesce(a, b) == IF a.t \in {"undef", "null"} THEN b ELSE a

\* solveGHTreeFromParams (part_001 250-266)
solveGHTreeFromParams(params, email, gh) ==
  LET pathPrefix == Coalesce(Get(params, "pathPrefix"), StrP(""))
      extension  == Coalesce(Get(params, "extension"), StrP(".md"))
  IN  IF \/ ~Truthy(Get(params, "owner"))
         \/ ~Truthy(Get(params, "repo"))
         \/ ~Truthy(Get(params, "sha"))
      THEN Threw
      ELSE IF ~gh.ok THEN Threw
      ELSE Returned(Num(CountMatching(gh.tree, pathPrefix.s, extension.s, 1)
                        + (Len(email) % 2)))

(***************************************************************************)
(* One step of solveChain ("chain" variant), between extraction and        *)
(* submission (part_001 330-403).                                          *)
(***************************************************************************)
\* const instr = extracted.json || extracted.preview || extracted.raw || {}
ChainInstr(x) ==
  IF x.kind = "json" THEN x.json
  ELSE IF x.text # TxEmpty THEN Str(x.text)
  ELSE Obj(NoFields)

\* (instr && (instr.submitUrl || instr.url || instr.submit)) || null
InstrSubmitUrl(instr) ==
  LET u == Or(Get(instr, "submitUrl"), Or(Get(instr, "url"), Get(instr, "submit")))
  IN  IF Truthy(u) THEN u ELSE NullP

\* the answer and reason of a step; x is the extraction result, e the
\* outcomes of the network calls a strategy may make
Step(out, answer, reason) == [out |-> out, answer |-> answer, reason |-> reason]

\* r is what a solver that may throw came to, reason the tag of its success
GhTreeStep(r) ==
  IF r.out = "ok" THEN Step("ok", r.v, Str("gh-tree"))
  ELSE Step("ok", Null, Str("gh-tree-error"))

TableSumStep(r) ==
  IF r.out = "ok" /\ r.v.t = "num"
  THEN Step("ok", r.v, Str("html-table-sum"))
  ELSE Step("ok", Null, Null)

HeatmapStep(r) ==
  IF r.out = "pending" THEN Step("pending", Null, Null)
  ELSE Step("ok", r.v, Str("heatmap"))

\* let params = instr; if (!params.owner && instr.preview) { const p =
\* safeJsonParse(instr.preview); if (p) params = p; }
ChainTreeParams(instr, pv) ==
  IF ~Truthy(Get(instr, "owner")) /\ Truthy(pv) /\ Truthy(safeJsonParse(pv.s))
  THEN safeJsonParse(pv.s) ELSE instr

\* a step that lets the tags git and md decide before any keyword of the
\* preview or the URL
ChainHeuristicsTagFirst(instr, kw, uk, task, p, email, e) ==
  IF task = StrP("git")
    THEN Step("ok", solveGit, Str("git"))
  ELSE IF task = StrP("md")
    THEN Step("ok", solveMD, Str("md"))
  ELSE IF task = StrP("uv") \/ "uv" \in kw \/ "uv" \in uk
    THEN Step("ok", solveUV(email), Str("uv"))
  ELSE IF task = StrP("git") \/ "git" \in kw
    THEN Step("ok", solveGit, Str("git"))
  ELSE IF task = StrP("md") \/ "md" \in kw
    THEN Step("ok", solveMD, Str("md"))
  ELSE IF task = StrP("audio-passphrase") \/ "audio-passphrase" \in uk \/ "pass" \in kw
    THEN Step("ok", solveAudioPassphrase(p), Str("audio"))
  ELSE IF task = StrP("heatmap") \/ "heatmap" \in uk \/ "heat" \in kw
    THEN HeatmapStep(solveHeatmapInPage(p))
  ELSE IF task = StrP("csv") \/ "csv" \in kw \/ "csv" \in uk
    THEN Step("ok", solveCSVFromPage(p, e.csvFetch), Str("csv"))
  ELSE IF task = StrP("gh-tree") \/ "tree" \in kw \/ "gh-tree" \in uk
    THEN GhTreeStep(solveGHTreeFromParams(
                      ChainTreeParams(instr, Get(instr, "preview")), email, e.gh))
  ELSE TableSumStep(IF "table" \in p.fails THEN Threw ELSE TableSum(p.tables, 1))

\* the chain of tests of part_001 342-396 on the instruction instr, the
\* patterns kw that match the preview text, the keywords uk of the URL and
\* the task tag
\* the else branch of part_001 345-396: classification by task tag,
\* preview text and URL, and the strategy of the task
ChainHeuristics(instr, kw, uk, task, p, email, e) ==
  IF task = StrP("uv") \/ "uv" \in kw \/ "uv" \in uk
    THEN Step("ok", solveUV(email), Str("uv"))
  ELSE IF task = StrP("git") \/ "git" \in kw
    THEN Step("ok", solveGit, Str("git"))
  ELSE IF task = StrP("md") \/ "md" \in kw
    THEN Step("ok", solveMD, Str("md"))
  ELSE IF task = StrP("audio-passphrase") \/ "audio-passphrase" \in uk \/ "pass" \in kw
    THEN Step("ok", solveAudioPassphrase(p), Str("audio"))
  ELSE IF task = StrP("heatmap") \/ "heatmap" \in uk \/ "heat" \in kw
    THEN HeatmapStep(solveHeatmapInPage(p))
  ELSE IF task = StrP("csv") \/ "csv" \in kw \/ "csv" \in uk
    THEN Step("ok", solveCSVFromPage(p, e.csvFetch), Str("csv"))
  ELSE IF task = StrP("gh-tree") \/ "tree" \in kw \/ "gh-tree" \in uk
    THEN GhTreeStep(solveGHTreeFromParams(
                      ChainTreeParams(instr, Get(instr, "preview")), email, e.gh))
  ELSE TableSumStep(IF "table" \in p.fails THEN Threw ELSE TableSum(p.tables, 1))

\* a step that classifies the instruction without looking at its answer
ChainBranchesIgnoringAnswer(instr, kw, uk, task, p, email, e) ==
  ChainHeuristics(instr, kw, uk, task, p, email, e)

\* part_001 342-345: typeof instr.answer !== "undefined" decides before any
\* classification
ChainBranches(instr, kw, uk, task, p, email, e) ==
  IF Get(instr, "answer").t # "undef"
    THEN Step("ok", Lift(Get(instr, "answer")), Str("explicit"))
  ELSE ChainHeuristics(instr, kw, uk, task, p, email, e)

ChainResolve(x, p, currentUrl, email, e) ==
  ChainBranches(ChainInstr(x), Mentions(x.text), UrlMentions(currentUrl),
                Get(ChainInstr(x), "task"), p, email, e)

\* finalSubmitUrl (part_001 399-403): the instruction's target, else the
\* first link that includes "/submit", else null
ChainFinalSubmitUrl(instr, p) ==
  IF Truthy(InstrSubmitUrl(instr)) THEN InstrSubmitUrl(instr)
  ELSE LET links == IF "links" \in p.fails THEN <<>> ELSE p.links
       IN  IF FindIndex(links, IncludesSubmit, 1) # 0
           THEN StrP(links[FindIndex(links, IncludesSubmit, 1)])
           ELSE NullP

\* finalSubmitUrl && typeof answer !== "undefined" && answer !== null
ChainShouldSubmit(target, answer) ==
  Truthy(target) /\ answer.t # "undef" /\ answer.t # "null"

(***************************************************************************)
(* The step of the "index" variant (index.js 148-301 and 374-469).         *)
(***************************************************************************)
\* solveAudioPassphrase (index.js 148-186): the match on the body text;
\* every later path of the function returns null
solveAudioPassphraseIndex(p) ==
  LET body == IF "body" \in p.fails THEN TxEmpty ELSE p.bodyText
  IN  IF AudioMatchIndex(body) # NoMatch THEN Str(AudioMatchIndex(body))
      ELSE Null

\* solveCSVFromPage (index.js 236-254): fetchText is outside any try block
solveCSVFromPageIndex(p, csvFetch) ==
  LET links == IF "links" \in p.fails THEN <<>> ELSE p.links
      pres  == IF "pre" \in p.fails THEN <<>> ELSE p.pres
  IN  IF FindIndex(links, IsCsvLink, 1) # 0
      THEN IF csvFetch = "fail" THEN Threw ELSE Returned(Arr(csvFetch))
      ELSE IF FindIndex(pres, HasComma, 1) # 0
           THEN Returned(Arr(pres[FindIndex(pres, HasComma, 1)]))
      ELSE Returned(Null)

\* String(x) of a prefix that is not a string: no path of a tree starts
\* with it
NotAPrefix == "<undefined>"

\* whether the solver of generation v reaches its fetch of the tree API:
\* part_001 256 throws before the fetch of line 258, index.js 292-293
\* builds the URL and fetches whatever the parameters are
GhTreeRequested(v, params) ==
  \/ v = "index"
  \/ /\ Truthy(Get(params, "owner"))
     /\ Truthy(Get(params, "repo"))
     /\ Truthy(Get(params, "sha"))

\* solveGHTreeFromJson (index.js 289-301): no test of the parameters;
\* extension || ".md"
solveGHTreeFromJson(params, email, gh) ==
  LET pathPrefix == Get(params, "pathPrefix")
      extension  == Or(Get(params, "extension"), StrP(".md"))
      prefix     == IF pathPrefix.t = "str" THEN pathPrefix.s ELSE NotAPrefix
  IN  IF ~gh.ok THEN Threw
      ELSE Returned(Num(CountMatching(gh.tree, prefix, extension.s, 1)
                        + (Len(email) % 2)))

\* the table callback of the fallback branch (index.js 441-457): as
\* TableSum, and with no "value" header the second column of the first table
RECURSIVE HeaderTableSum(_, _)
HeaderTableSum(tables, i) ==
  IF i > Len(tables)
  THEN IF Len(tables) = 0 THEN Returned(Null)
       ELSE IF ShortRow(tables[1].rows, 2) THEN Threw
       ELSE Returned(Num(SumColumn(tables[1].rows, 2, 1)))
  ELSE LET idx == IndexOf(tables[i].headers, "value", 1)
       IN  IF idx = 0 THEN HeaderTableSum(tables, i + 1)
           ELSE IF ShortRow(tables[i].rows, idx) THEN Threw
           ELSE Returned(Num(SumColumn(tables[i].rows, idx, 1)))

\* index.js 398-410
IndexAudioStep(t, body) ==
  IF Truthy(t) THEN Step("ok", t, Str("audio-transcribed"))
  ELSE IF AudioFallbackIndex(body) # NoMatch
       THEN Step("ok", Str(AudioFallbackIndex(body)), Str("audio-fallback"))
  ELSE Step("ok", Null, Str("audio-fallback"))

IndexCsvStep(r) ==
  IF r.out = "ok" THEN Step("ok", r.v, Str("csv"))
  ELSE Step("throw", Null, Null)

\* index.js 421-426: safeJsonParse(instr.preview || "{}") replaces the
\* instruction when it names neither pathPrefix nor owner
IndexTreeParams(instr, parsed) ==
  IF Get(instr, "pathPrefix").t = "undef" /\ Get(instr, "owner").t = "undef"
     /\ Truthy(parsed)
  THEN parsed ELSE instr

\* the chain of tests of index.js 383-462 on the instruction instr, its
\* preview pv, the patterns kw that match previewText (no instruction of
\* the model carries a text field, so previewText is the lower-cased
\* preview), the keywords uk of the URL and explicitTask
IndexHeuristics(instr, pv, kw, uk, task, p, email, e) ==
  IF task = StrP("uv") \/ "uv" \in kw \/ "uv" \in uk
    THEN Step("ok", solveUV(email), Str("uv"))
  ELSE IF task = StrP("git") \/ "git" \in kw
    THEN Step("ok", solveGit, Str("git"))
  ELSE IF task = StrP("md") \/ "md" \in kw
    THEN Step("ok", solveMD, Str("md"))
  ELSE IF task = StrP("audio-passphrase") \/ "audio-passphrase" \in uk \/ "pass" \in kw
    THEN IndexAudioStep(solveAudioPassphraseIndex(p),
                        IF "body" \in p.fails THEN TxEmpty ELSE p.bodyText)
  ELSE IF task = StrP("heatmap") \/ "heat" \in kw \/ "heatmap" \in uk
    THEN HeatmapStep(solveHeatmapInPage(p))
  ELSE IF task = StrP("csv") \/ "csv" \in kw \/ "csv" \in uk
    THEN IndexCsvStep(solveCSVFromPageIndex(p, e.csvFetch))
  ELSE IF task = StrP("gh-tree") \/ "ghtree" \in kw \/ "gh-tree" \in uk
    THEN GhTreeStep(solveGHTreeFromJson(
                      IndexTreeParams(instr, IF Truthy(pv) THEN safeJsonParse(pv.s)
                                             ELSE Obj(NoFields)),
                      email, e.gh))
  ELSE IF "sumcol" \in kw
    THEN TableSumStep(IF "table" \in p.fails THEN Threw
                      ELSE HeaderTableSum(p.tables, 1))
  ELSE Step("ok", Null, Null)

\* index.js 383-386
IndexBranches(instr, pv, kw, uk, task, p, email, e) ==
  IF Get(instr, "answer").t # "undef"
    THEN Step("ok", Lift(Get(instr, "answer")), Str("explicit"))
  ELSE IndexHeuristics(instr, pv, kw, uk, task, p, email, e)

\* Mentions of a preview that may be absent
PreviewMentions(pv) == IF Truthy(pv) THEN Mentions(pv.s) ELSE {}

IndexResolve(instr, p, currentUrl, email, e) ==
  IndexBranches(instr, Get(instr, "preview"),
                PreviewMentions(Get(instr, "preview")),
                UrlMentions(currentUrl),
                Or(Get(instr, "task"), Get(instr, "type")), p, email, e)

(***************************************************************************)
(* The step of the "part0" variant (part_000 59-114): the answer is a      *)
(* constant chosen by quiz.task.                                           *)
(***************************************************************************)
Part0CsvAnswer ==
  "[{\"id\":1,\"name\":\"alice\",\"joined\":\"2023-01-01\",\"value\":10},{\"id\":2,\"name\":\"bob\",\"joined\":\"2023-02-01\",\"value\":20}]"

Part0Tasks == {"uv", "git", "md", "audio-passphrase", "heatmap", "csv", "gh-tree"}

\* part_000 67-104
Part0Answer(quiz, task, email) ==
  CASE task = StrP("uv")               -> solveUV(email)
    [] task = StrP("git")              -> solveGit
    [] task = StrP("md")               -> solveMD
    [] task = StrP("audio-passphrase") -> Str("first part 219")
    [] task = StrP("heatmap")          -> Str("#b35a1f")
    [] task = StrP("csv")              -> Str(Part0CsvAnswer)
    [] task = StrP("gh-tree")          -> Lift(Get(quiz, "expected"))
    [] OTHER                           -> Null

\* part_000 106-114: a falsy answer ends the step with no-answer-generated
Part0Step(answer, task) ==
  IF ~Truthy(answer) THEN Step("return", answer, Str("no-answer-generated"))
  ELSE Step("ok", answer,
            IF task.t = "str" /\ task.s \in Part0Tasks THEN Str("")
            ELSE Str("unknown-task"))

\* quiz.task of a null quiz throws
Part0Resolve(quiz, email) ==
  IF quiz.t \in {"null", "undef"} THEN Step("throw", Null, Null)
  ELSE Part0Step(Part0Answer(quiz, Get(quiz, "task"), email), Get(quiz, "task"))

(***************************************************************************)
(* The step of the "index2" variant (index.js 596-610).                    *)
(***************************************************************************)
\* computedAnswer: a truthy table that is no array has no reduce method
Index2Resolve(j) ==
  LET reason == Lift(Or(Get(j, "reason"), StrP("parsed")))
  IN  IF Truthy(Get(j, "table")) THEN Step("throw", Null, Null)
      ELSE IF Get(j, "value").t = "num" THEN Step("ok", Lift(Get(j, "value")), reason)
      ELSE IF Truthy(Get(j, "sum")) THEN Step("ok", Lift(Get(j, "sum")), reason)
      ELSE Step("ok", Num(0), reason)

(***************************************************************************)
(* solveQuizPage of the "deadline" variant (part_001 550-710).             *)
(***************************************************************************)
\* parseFloat of the cell with commas, currency signs and spaces removed;
\* the empty sequence for NaN
CleanNumber(c) ==
  CASE c = "10"  -> <<10>>
    [] c = "$20" -> <<20>>
    [] c = "20"  -> <<20>>
    [] c = "12"  -> <<12>>
    [] c = "30"  -> <<30>>
    [] c = "1"   -> <<1>>
    [] c = "2,"  -> <<2>>
    [] c = "0"   -> <<0>>
    [] c = "7"   -> <<7>>
    [] OTHER     -> <<>>

RECURSIVE CleanNumbers(_, _)
CleanNumbers(arr, i) ==
  IF i > Len(arr) THEN <<>>
  ELSE CleanNumber(arr[i]) \o CleanNumbers(arr, i + 1)

RECURSIVE SumSeq(_, _)
SumSeq(nums, i) == IF i > Len(nums) THEN 0 ELSE nums[i] + SumSeq(nums, i + 1)

\* sumValues(arr): null when no element is a number
sumValues(arr) ==
  IF Len(CleanNumbers(arr, 1)) = 0 THEN Null
  ELSE Num(SumSeq(CleanNumbers(arr, 1), 1))

\* the cells of column idx of the tbody rows that have one
RECURSIVE ColumnCells(_, _, _)
ColumnCells(rows, idx, i) ==
  IF i > Len(rows) THEN <<>>
  ELSE (IF Len(rows[i]) >= idx THEN <<rows[i][idx]>> ELSE <<>>)
       \o ColumnCells(rows, idx, i + 1)

\* part_001 615-646: the first table with a "value" header whose column
\* holds a number
RECURSIVE DeadlineTableSum(_, _)
DeadlineTableSum(tables, i) ==
  IF i > Len(tables) THEN Null
  ELSE LET idx == IndexOf(tables[i].headers, "value", 1)
       IN  IF idx # 0 /\ sumValues(ColumnCells(tables[i].rows, idx, 1)).t # "null"
           THEN sumValues(ColumnCells(tables[i].rows, idx, 1))
           ELSE DeadlineTableSum(tables, i + 1)

\* /\.csv/i.test(link)
IsCsvHref(u) == u = CsvLink

\* rows.slice(1).map(r => r.split(",")[idx]) for the "value" column of the
\* header row
CsvValueColumn(t) ==
  IF t = CsvText THEN <<"20", "10">> ELSE <<>>

\* part_001 651-690: the first .csv link whose value column holds a number;
\* a failing fetch is caught and the next link is tried
RECURSIVE DeadlineLinkSum(_, _, _)
DeadlineLinkSum(links, csvFetch, i) ==
  IF i > Len(links) THEN Null
  ELSE IF IsCsvHref(links[i]) /\ csvFetch # "fail"
          /\ sumValues(CsvValueColumn(csvFetch)).t # "null"
       THEN sumValues(CsvValueColumn(csvFetch))
  ELSE DeadlineLinkSum(links, csvFetch, i + 1)

DeadlineStep(out, answer, reason, target, decoded) ==
  [out |-> out, answer |-> answer, reason |-> reason, target |-> target,
   decoded |-> decoded]

\* one strategy of solveQuizPage: under if (!answer), a found value replaces
\* the answer and the reason
Improve(s, found, why) ==
  IF ~Truthy(s.answer) /\ found.t # "null"
  THEN [answer |-> found, reason |-> Str(why)] ELSE s

\* part_001 604-610
DecodedAnswer(j) ==
  IF Truthy(j) /\ Get(j, "answer").t # "undef"
  THEN [answer |-> Lift(Get(j, "answer")), reason |-> Str("base64-json")]
  ELSE [answer |-> Null, reason |-> Null]

\* part_001 580-585
DecodedPayload(h) ==
  IF HtmlAtobLiteral(h) # NoMatch
  THEN Str(Base64Decode(HtmlAtobLiteral(h))) ELSE Null

\* part_001 574-575
DeadlineSubmitUrl(h) ==
  IF HtmlSubmitMatch(h) # NoMatch THEN StrP(HtmlSubmitMatch(h)) ELSE NullP

\* the answer after strategies 1, 2, 3 and 4; page.$$("table") and the
\* query of the links are outside any try block
DeadlineStages(s1, s2, s3, s4, p, target, decoded) ==
  IF ~Truthy(s1.answer) /\ "table" \in p.fails
    THEN DeadlineStep("throw", Null, Null, NullP, Null)
  ELSE IF ~Truthy(s2.answer) /\ "links" \in p.fails
    THEN DeadlineStep("throw", Null, Null, NullP, Null)
  ELSE DeadlineStep("ok", s4.answer, s4.reason, target, decoded)

Stage1(p) ==
  DecodedAnswer(IF Truthy(DecodedPayload(p.html))
                THEN safeJsonParse(DecodedPayload(p.html).s) ELSE Null)
Stage2(p) == Improve(Stage1(p), DeadlineTableSum(p.tables, 1), "html-table-sum")
Stage3(p, e) ==
  Improve(Stage2(p), DeadlineLinkSum(p.links, e.csvFetch, 1), "csv-sum")
Stage4(p, e) ==
  Improve(Stage3(p, e),
          sumValues(ValueMatches(IF "body" \in p.fails THEN TxEmpty ELSE p.bodyText)),
          "text-regex-sum")

DeadlineSolve(p, e) ==
  DeadlineStages(Stage1(p), Stage2(p), Stage3(p, e), Stage4(p, e), p,
                 DeadlineSubmitUrl(p.html), DecodedPayload(p.html))

(***************************************************************************)
(* Program constants.                                                      *)
(***************************************************************************)
SECRET     == "my-top-secret-123"
MAX_STEPS  == 15
MaxSteps10 == 10
deadlineMs == 3 * 60 * 1000

Variants == {"chain", "deadline", "index", "index2", "part0"}

\* the step bound of the for loop of a variant
StepLimit(v) == IF v = "index2" THEN MaxSteps10 ELSE MAX_STEPS

(***************************************************************************)
(* State.                                                                  *)
(*   variant      which generation of the server handles the request       *)
(*   req          the request body {email, secret, url}                    *)
(*   pc           position of the handler                                  *)
(*   status, resBody   the HTTP response (status 0: none yet)              *)
(*   browsers, pagesOpen   browsers and pages opened and not yet closed    *)
(*   step         loop counter                                             *)
(*   currentUrl   currentUrl / nextUrl of the loop                         *)
(*   page         the page rendered in this step                           *)
(*   cur          the locals of the step: extraction, instruction, answer, *)
(*                reason, submit target, submit response                   *)
(*   lastResult   lastResult / final / finalResult                         *)
(*   clock, startedAt   Date.now() and the handler's startedAt             *)
(*   obs          what an outside observer has seen: launches, renders,    *)
(*                the bootstrap post and its response, the last post, the  *)
(*                clock when the step began, where an exception arose      *)
(***************************************************************************)
VARIABLES variant, req, pc, status, resBody, browsers, pagesOpen, step,
          currentUrl, page, cur, lastResult, clock, startedAt, obs

vars == <<variant, req, pc, status, resBody, browsers, pagesOpen, step,
          currentUrl, page, cur, lastResult, clock, startedAt, obs>>

\* no page is open
NoPage == [BasePage EXCEPT !.html = "<no page>"]

\* a step record; a field the variant's record lacks is undefined
NoRec ==
  [url |-> "", instr |-> Undef, preview |-> Undef, answer |-> Undef,
   reason |-> Undef, target |-> UndefP, resp |-> Undef, error |-> ""]

NoCur ==
  [x |-> XNull, instr |-> Undef, answer |-> Undef, reason |-> Undef,
   target |-> UndefP, resp |-> Undef, posted |-> FALSE, bytes |-> 0,
   got |-> "none"]

NoPost == [to |-> "", email |-> Undef, secret |-> Undef, url |-> "",
           answer |-> Undef]

NoResponse == [kind |-> "none", v |-> Undef]

NoObs ==
  [launches |-> 0, renders |-> 0, lastRender |-> "", bootPosts |-> 0,
   bootResp |-> NoResponse, lastPost |-> NoPost, startClock |-> 0,
   threw |-> "", visited |-> {}]

NoBody == [kind |-> "none", rec |-> NoRec]

\* the requests of the model
Email   == "ab@c.de"
Emails  == {Undef, Str(""), Str(Email)}
Secrets == {Undef, Str(SECRET), Str("wrong")}
Urls    == {Undef, Str(RootUrl), Str(UrlA)}

Init ==
  /\ variant \in Variants
  /\ req \in [email : Emails, secret : Secrets, url : Urls]
  /\ pc = "recv"
  /\ status = 0
  /\ resBody = NoBody
  /\ browsers = 0
  /\ pagesOpen = 0
  /\ step = 0
  /\ currentUrl = ""
  /\ page = NoPage
  /\ cur = NoCur
  /\ lastResult = NoRec
  /\ clock = 0
  /\ startedAt = 0
  /\ obs = NoObs

\* res.status(code).json(body)
Respond(code, body) ==
  /\ status' = code
  /\ resBody' = body
  /\ pc' = "responded"

(***************************************************************************)
(* app.post("/api/quiz"): the checks on the request body                   *)
(* (part_001 450-452 and 493-495, index.js 522-524 and 653-661,            *)
(* part_000 149-155).                                                      *)
(***************************************************************************)
MissingFields(r) == ~Truthy(r.email) \/ ~Truthy(r.secret) \/ ~Truthy(r.url)

\* the two checks in the other order
ValidateSecretFirst ==
  /\ pc = "recv"
  /\ IF req.secret # Str(SECRET)
       THEN Respond(403, [kind |-> "invalid-secret", rec |-> NoRec])
     ELSE IF MissingFields(req)
       THEN Respond(400, [kind |-> "missing-fields", rec |-> NoRec])
     ELSE /\ pc' = "start"
          /\ UNCHANGED <<status, resBody>>
  /\ UNCHANGED <<variant, req, browsers, pagesOpen, step, currentUrl, page,
                 cur, lastResult, clock, startedAt, obs>>

Validate ==
  /\ pc = "recv"
  /\ IF MissingFields(req)
       THEN Respond(400, [kind |-> "missing-fields", rec |-> NoRec])
     ELSE IF req.secret # Str(SECRET)
       THEN Respond(403, [kind |-> "invalid-secret", rec |-> NoRec])
     ELSE /\ pc' = "start"
          /\ UNCHANGED <<status, resBody>>
  /\ UNCHANGED <<variant, req, browsers, pagesOpen, step, currentUrl, page,
                 cur, lastResult, clock, startedAt, obs>>

(***************************************************************************)
(* Entry of the chain: chromium.launch and the initial values of the loop  *)
(* variables (part_001 275-277, index.js 325-327 and 663-665, part_000     *)
(* 157-160); the "deadline" variant launches no browser here and reads     *)
(* the clock (part_001 497-502).                                           *)
(***************************************************************************)
Start ==
  /\ pc = "start"
  /\ currentUrl' = req.url.s
  /\ lastResult' = NoRec
  /\ step' = 0
  /\ IF variant = "deadline"
       THEN /\ startedAt' = clock
            /\ UNCHANGED <<browsers, obs>>
            /\ pc' = "loop"
       ELSE /\ browsers' = browsers + 1
            /\ obs' = [obs EXCEPT !.launches = @ + 1]
            /\ UNCHANGED startedAt
            /\ pc' = IF variant \in {"chain", "index", "part0"}
                        /\ EndsWithProject2(req.url.s)
                     THEN "boot" ELSE "loop"
  /\ UNCHANGED <<variant, req, status, resBody, pagesOpen, page, cur, clock>>

(***************************************************************************)
(* The submit endpoint.  A POST comes to one of:                           *)
(*   netfail   fetch rejects                                               *)
(*   badjson   the body is not JSON (resp.json() rejects)                  *)
(*   json      the body parses to v                                        *)
(***************************************************************************)
RNetFail == [kind |-> "netfail", v |-> Undef]
RBadJson == [kind |-> "badjson", v |-> Undef]
RJson(v) == [kind |-> "json", v |-> v]

UrlObj(u) == Obj([NoFields EXCEPT !.url = StrP(u)])
\* { error: String(e) }
ErrObj    == Obj([NoFields EXCEPT !.error = StrP("FetchError: request failed")])

NextUrls  == {UrlA, UrlB, UrlUv}
Responses ==
  {RNetFail, RBadJson, RJson(Null), RJson(Obj(NoFields)), RJson(UrlObj(""))}
  \cup {RJson(UrlObj(u)) : u \in NextUrls}

\* an exception reaches the catch block of the handler:
\* res.status(500).json({ error })
Throw500(where) ==
  /\ Respond(500, [kind |-> "server-error", rec |-> NoRec])
  /\ obs' = [obs EXCEPT !.threw = where]

BootFail(resp) ==
  [kind |-> "initial-submit-failed", rec |-> [NoRec EXCEPT !.resp = resp]]

(***************************************************************************)
(* The initial submission for a start URL that ends with /project2.        *)
(*   chain  (part_001 280-299): fetch in a try block, json().catch         *)
(*   index  (index.js 330-342): fetch unguarded, json().catch              *)
(*   part0  (part_000 165-191): fetch and json() unguarded, initJson.url   *)
(*          read without a null test, no browser.close() on failure        *)
(* BootOutcome is what the code does with response r:                      *)
(*   k "next": continue with url; "fail": return initial-submit-failed     *)
(*   with resp, closing the browser if close; "throw": an exception.       *)
(***************************************************************************)
BootOutcome(v, r) ==
  LET initJson == IF r.kind = "json" THEN r.v ELSE Null
      Cont(u)  == [k |-> "next", close |-> FALSE, resp |-> Undef, url |-> u]
      Fail(c, resp) == [k |-> "fail", close |-> c, resp |-> resp, url |-> ""]
      Throws   == [k |-> "throw", close |-> FALSE, resp |-> Undef, url |-> ""]
  IN
  IF v = "chain" THEN
       IF r.kind = "netfail" THEN Fail(TRUE, ErrObj)
       ELSE IF ~Truthy(initJson) \/ ~Truthy(Get(initJson, "url"))
            THEN Fail(TRUE, IF Truthy(initJson) THEN initJson ELSE Null)
       ELSE Cont(Get(initJson, "url").s)
  ELSE IF v = "index" THEN
       IF r.kind = "netfail" THEN Throws
       ELSE IF ~Truthy(initJson) \/ ~Truthy(Get(initJson, "url"))
            THEN Fail(TRUE, IF Truthy(initJson) THEN initJson ELSE Null)
       ELSE Cont(Get(initJson, "url").s)
  ELSE \* part0
       IF r.kind \in {"netfail", "badjson"} THEN Throws
       ELSE IF r.v.t = "null" THEN Throws
       ELSE IF ~Truthy(Get(r.v, "url")) THEN Fail(FALSE, r.v)
       ELSE Cont(Get(r.v, "url").s)

Bootstrap ==
  /\ pc = "boot"
  /\ \E r \in Responses :
       LET o == BootOutcome(variant, r)
           seen == [obs EXCEPT !.bootPosts = @ + 1, !.bootResp = r,
                               !.lastPost = [to |-> SubmitUrl, email |-> req.email,
                                             secret |-> req.secret,
                                             url |-> req.url.s,
                                             answer |-> Str("")]]
       IN
       IF o.k = "next"
         THEN /\ currentUrl' = o.url
              /\ pc' = "loop"
              /\ obs' = seen
              /\ UNCHANGED <<status, resBody, browsers>>
       ELSE IF o.k = "fail"
         THEN /\ browsers' = IF o.close THEN browsers - 1 ELSE browsers
              /\ Respond(200, BootFail(o.resp))
              /\ obs' = seen
              /\ UNCHANGED currentUrl
       ELSE /\ Respond(500, [kind |-> "server-error", rec |-> NoRec])
            /\ obs' = [seen EXCEPT !.threw = "boot"]
            /\ UNCHANGED <<currentUrl, browsers>>
  /\ UNCHANGED <<variant, req, pagesOpen, step, page, cur, lastResult, clock,
                 startedAt>>

(***************************************************************************)
(* The pages the quiz service serves.                                      *)
(***************************************************************************)
\* pages whose queries reject
PBrokenPre    == [PMd EXCEPT !.fails = {"pre"}]
PBrokenScript == [PScript EXCEPT !.fails = {"script"}]
PBroken       == [BasePage EXCEPT !.fails = {"pre", "result", "script", "content",
                                             "body", "links", "img", "table"}]

Pages == {BasePage, PMd, PGit, PExplicit, PNoTarget, PNullAns, PHeatLoad,
          PHeatErr, PZeroFirst, PNullOnly, PScript, PPreScript, PTable, PZeroTable,
          PValueText, PDivJson, PResultWrapped, PTwoPre, PPass, PCsv, PTree,
          PBrokenPre, PBrokenScript, PBroken}

\* a page whose preformatted blocks and scripts were removed by reading them
PageConsumed(p) == [p EXCEPT !.pres = <<>>, !.scripts = <<>>]

\* the pages the service serves behind the first page of a chain
LaterPages == {PMd, PExplicit, PNoTarget}

\* page.goto resolves, or rejects (navigation timeout, network error)
NavOutcomes == {"loaded", "failed"}

\* what the network calls of a strategy come to: the text of the CSV
\* resource or "fail", and the listing of the tree API
Tree1 == <<"docs/a.md", "docs/b.txt", "src/c.md">>
Envs  == [csvFetch : {"fail", CsvText},
          gh : {[ok |-> FALSE, tree |-> <<>>], [ok |-> TRUE, tree |-> Tree1]}]

(***************************************************************************)
(* Top of the loop.  for (step = 0; step < MAX_STEPS; step++) in "chain",  *)
(* "index" and "part0", i < 10 in "index2";                                *)
(* while (currentUrl && Date.now() - startedAt < deadlineMs) in "deadline".*)
(***************************************************************************)
\* the loop of the "deadline" variant without its test of the clock
LoopConditionNoDeadline ==
  IF variant = "deadline"
  THEN currentUrl # ""
  ELSE step < StepLimit(variant)

LoopCondition ==
  IF variant = "deadline"
  THEN currentUrl # "" /\ clock - startedAt < deadlineMs
  ELSE step < StepLimit(variant)

LoopTop ==
  /\ pc = "loop"
  /\ pc' = IF LoopCondition THEN "render" ELSE "close"
  /\ UNCHANGED <<variant, req, status, resBody, browsers, pagesOpen, step,
                 currentUrl, page, cur, lastResult, clock, startedAt, obs>>

(***************************************************************************)
(* Time.  The clock is read in milliseconds; only the "deadline" variant   *)
(* reads it.  Rendering a page and posting an answer take time in units    *)
(* of TickMs.                                                              *)
(***************************************************************************)
TickMs          == 60000
MaxTicksPerStep == 4
RenderDurations == {k * TickMs : k \in 1..MaxTicksPerStep}
SubmitDurations == {0, TickMs}

(***************************************************************************)
(* Opening and loading the page of a step.                                 *)
(*   chain (part_001 303-321), index (index.js 346-364): browser.newPage,  *)
(*     page.goto and the wait each in a try block                          *)
(*   part0 (part_000 43-44), index2 (index.js 555-558): goto unguarded     *)
(*   deadline (part_001 553-565): solveQuizPage launches its own browser,  *)
(*     goto has .catch, page.content() is unguarded                        *)
(***************************************************************************)
Render ==
  /\ pc = "render"
  /\ \E p \in (IF obs.renders = 0 THEN Pages ELSE LaterPages),
        nav \in (IF variant \in {"part0", "index2"} THEN NavOutcomes ELSE {"loaded"}),
        d \in (IF variant = "deadline" THEN RenderDurations ELSE {0}) :
       LET seen == [obs EXCEPT !.renders = @ + 1, !.lastRender = currentUrl,
                               !.visited = @ \cup {currentUrl},
                               !.startClock = clock,
                               !.launches = IF variant = "deadline" THEN @ + 1 ELSE @]
       IN
       /\ pagesOpen' = pagesOpen + 1
       /\ browsers' = IF variant = "deadline" THEN browsers + 1 ELSE browsers
       /\ clock' = clock + d
       /\ cur' = NoCur
       /\ page' = p
       /\ IF \/ nav = "failed"
             \/ variant = "deadline" /\ "content" \in p.fails
            THEN /\ Respond(500, [kind |-> "server-error", rec |-> NoRec])
                 /\ obs' = [seen EXCEPT !.threw = "render"]
            ELSE /\ pc' = IF variant = "deadline" THEN "resolve" ELSE "extract"
                 /\ obs' = seen
                 /\ UNCHANGED <<status, resBody>>
  /\ UNCHANGED <<variant, req, step, currentUrl, lastResult, startedAt>>

(***************************************************************************)
(* Extraction of the instruction.                                          *)
(***************************************************************************)
\* the page after the reads of extractInstructionFromPage: page.$$eval,
\* page.$eval and page.content() evaluate in the page and write nothing
PageAfterExtraction(p) == p

\* index2 (index.js 576-589): the first <pre> whose text parses to a value
\* with an answer property; parsing null makes parsed.answer throw inside
\* the try block
HasAnswerBlock(t) ==
  /\ JsonParse(t).ok
  /\ JsonParse(t).v.t # "null"
  /\ Get(JsonParse(t).v, "answer").t # "undef"

Extract ==
  /\ pc = "extract"
  /\ IF variant = "chain" THEN
          \* part_001 323-331
          LET x == extractInstructionFromPage(page) IN
          IF x.kind = "null"
          THEN /\ pagesOpen' = pagesOpen - 1
               /\ page' = NoPage
               /\ lastResult' = [NoRec EXCEPT !.url = currentUrl,
                                              !.error = "no-instruction"]
               /\ cur' = [cur EXCEPT !.x = x]
               /\ pc' = "close"
               /\ UNCHANGED <<status, resBody, obs>>
          ELSE /\ cur' = [cur EXCEPT !.x = x, !.instr = ChainInstr(x)]
               /\ page' = PageAfterExtraction(page)
               /\ pc' = "resolve"
               /\ UNCHANGED <<status, resBody, pagesOpen, lastResult, obs>>
     ELSE IF variant = "index" THEN
          \* index.js 367-372
          LET r == extractInstructionFromPageIndex(page) IN
          IF r.threw
          THEN /\ Throw500("extract")
               /\ UNCHANGED <<pagesOpen, page, lastResult, cur>>
          ELSE /\ cur' = [cur EXCEPT
                            !.x = IF Truthy(r.v) THEN XJson(r.v, TxEmpty) ELSE XNull,
                            !.instr = IF Truthy(r.v) THEN r.v ELSE Obj(NoFields)]
               /\ pc' = "resolve"
               /\ UNCHANGED <<status, resBody, pagesOpen, page, lastResult, obs>>
     ELSE IF variant = "part0" THEN
          \* part_000 46-60
          LET x == extractJsonFromPage(page) IN
          IF x.kind = "throw"
          THEN /\ Throw500("extract")
               /\ UNCHANGED <<pagesOpen, page, lastResult, cur>>
          ELSE IF x.kind = "null"
          THEN /\ lastResult' = [NoRec EXCEPT !.answer = Null,
                                              !.reason = Str("no-json-found"),
                                              !.target = NullP, !.resp = Null,
                                              !.preview = Null]
               /\ cur' = [cur EXCEPT !.x = x, !.answer = Null,
                                     !.reason = Str("no-json-found"),
                                     !.target = NullP, !.resp = Null]
               /\ pc' = "close"
               /\ UNCHANGED <<status, resBody, pagesOpen, page, obs>>
          ELSE /\ cur' = [cur EXCEPT !.x = x, !.instr = x.json]
               /\ pc' = "resolve"
               /\ UNCHANGED <<status, resBody, pagesOpen, page, lastResult, obs>>
     ELSE \* index2, index.js 571-594
          IF "content" \in page.fails \/ "body" \in page.fails
             \/ "pre" \in page.fails
          THEN /\ Throw500("extract")
               /\ UNCHANGED <<pagesOpen, page, lastResult, cur>>
          ELSE IF FindIndex(page.pres, HasAnswerBlock, 1) = 0
          THEN /\ lastResult' = [NoRec EXCEPT !.answer = Null,
                                              !.reason = Str("no-json-found"),
                                              !.target = NullP]
               /\ cur' = [cur EXCEPT !.answer = Null,
                                     !.reason = Str("no-json-found"),
                                     !.target = NullP]
               /\ pc' = "close"
               /\ UNCHANGED <<status, resBody, pagesOpen, page, obs>>
          ELSE LET t == page.pres[FindIndex(page.pres, HasAnswerBlock, 1)] IN
               /\ cur' = [cur EXCEPT !.x = XJson(JsonParse(t).v, t),
                                     !.instr = JsonParse(t).v]
               /\ pc' = "resolve"
               /\ UNCHANGED <<status, resBody, pagesOpen, page, lastResult, obs>>
  /\ UNCHANGED <<variant, req, browsers, step, currentUrl, clock, startedAt>>

(***************************************************************************)
(* The answer, reason and submit target of a step.                         *)
(*   out "ok"       the step goes on to submission                         *)
(*       "pending"  an await of the step never settles                     *)
(*       "throw"    an exception leaves the step                           *)
(*       "return"   part0 returns early with no answer (part_000 106-114)  *)
(***************************************************************************)
StepTarget ==
  CASE variant \in {"chain", "index"} -> ChainFinalSubmitUrl(cur.instr, page)
    [] variant = "part0" -> StrP(SubmitUrl)
    [] OTHER -> Or(Get(cur.instr, "submitUrl"), Get(cur.instr, "url"))

WithTarget(s, t) ==
  [out |-> s.out, answer |-> s.answer, reason |-> s.reason, target |-> t]

StepOutcome(e) ==
  WithTarget(
    CASE variant = "chain" ->
           ChainResolve(cur.x, page, currentUrl, req.email.s, e)
      [] variant = "index" ->
           IndexResolve(cur.instr, page, currentUrl, req.email.s, e)
      [] variant = "part0" -> Part0Resolve(cur.instr, req.email.s)
      [] OTHER -> Index2Resolve(cur.instr),
    StepTarget)

Resolve ==
  /\ pc = "resolve"
  /\ \E e \in Envs :
       IF variant = "deadline" THEN
         \* part_001 565-709: the browser of the step is closed at its end
         \E r \in {DeadlineSolve(page, e)} :
         IF r.out = "throw"
         THEN /\ Throw500("resolve")
              /\ UNCHANGED <<browsers, pagesOpen, page, cur, lastResult>>
         ELSE /\ browsers' = browsers - 1
              /\ pagesOpen' = pagesOpen - 1
              /\ page' = NoPage
              /\ cur' = [cur EXCEPT !.answer = r.answer, !.reason = r.reason,
                                    !.target = r.target]
              /\ lastResult' = [NoRec EXCEPT !.url = currentUrl,
                                             !.target = r.target,
                                             !.answer = r.answer,
                                             !.reason = r.reason,
                                             !.preview = r.decoded]
              /\ pc' = "submit"
              /\ UNCHANGED <<status, resBody, obs>>
       ELSE
         \E r \in {StepOutcome(e)} :
         IF r.out = "throw"
         THEN /\ Throw500("resolve")
              /\ UNCHANGED <<browsers, pagesOpen, page, cur, lastResult>>
         ELSE IF r.out = "pending"
         THEN /\ pc' = "blocked"
              /\ UNCHANGED <<status, resBody, browsers, pagesOpen, page, cur,
                             lastResult, obs>>
         ELSE IF r.out = "return"
         THEN /\ cur' = [cur EXCEPT !.answer = r.answer, !.reason = r.reason,
                                    !.target = NullP, !.resp = Null]
              /\ lastResult' = [NoRec EXCEPT !.answer = r.answer,
                                             !.reason = r.reason,
                                             !.target = NullP, !.resp = Null,
                                             !.preview = Str(cur.x.text)]
              /\ pc' = "close"
              /\ UNCHANGED <<status, resBody, browsers, pagesOpen, page, obs>>
         ELSE /\ cur' = [cur EXCEPT !.answer = r.answer, !.reason = r.reason,
                                    !.target = r.target]
              /\ pc' = "submit"
              /\ UNCHANGED <<status, resBody, browsers, pagesOpen, page,
                             lastResult, obs>>
  /\ UNCHANGED <<variant, req, step, currentUrl, clock, startedAt>>

(***************************************************************************)
(* Submission of the answer.                                               *)
(*   chain    part_001 405-419     index   index.js 471-491                *)
(*   deadline part_001 507-531     index2  index.js 612-635                *)
(*   part0    part_000 121-133                                             *)
(***************************************************************************)
\* 1024 * 1024 of index.js 477
PayloadCap == 1048576

\* Buffer.byteLength(JSON.stringify(payload), "utf8"): the email and the
\* answer are of any length, so the lengths at and around the cap occur
PayloadBytes == {PayloadCap - 1, PayloadCap, PayloadCap + 1}

\* only chain and index are observed at the cap
PayloadSizes(v) == IF v \in {"chain", "index"} THEN PayloadBytes ELSE {0}

\* index.js 477: Buffer.byteLength(bodyStr, "utf8") < 1024 * 1024; no other
\* generation measures the payload
WithinCap(v, n) == v = "index" => n < PayloadCap

\* { error: "payload-too-large" }
TooLargeObj == Obj([NoFields EXCEPT !.error = StrP("payload-too-large")])

ShouldSubmit(v, target, answer) ==
  CASE v \in {"chain", "index"} -> ChainShouldSubmit(target, answer)
    [] v = "deadline" -> Truthy(target) /\ answer.t # "undef"
    [] v = "index2"   -> Truthy(target)
    [] OTHER          -> TRUE

\* what the code makes of response r: the value kept as submitResponse, or
\* an exception
SubmitOutcome(v, r) ==
  LET Kept(x) == [k |-> "resp", resp |-> x]
      Throws  == [k |-> "throw", resp |-> Undef]
  IN
  CASE v \in {"chain", "index", "deadline"} ->
         IF r.kind = "netfail" THEN Kept(ErrObj)
         ELSE IF r.kind = "badjson" THEN Kept(Null)
         ELSE Kept(r.v)
    [] v = "index2" ->
         IF r.kind = "json" THEN Kept(r.v) ELSE Kept(Null)
    [] OTHER ->
         IF r.kind # "json" \/ r.v.t = "null" THEN Throws ELSE Kept(r.v)

\* a submission that names the URL the chain started from
StartUrlPayload(target, email, secret, url, answer) ==
  [to |-> target, email |-> email, secret |-> secret, url |-> req.url.s,
   answer |-> answer]

\* const payload = { email, secret, url: currentUrl, answer } and the
\* address it is posted to
StepPayload(target, email, secret, url, answer) ==
  [to |-> target, email |-> email, secret |-> secret, url |-> url,
   answer |-> answer]

Submit ==
  /\ pc = "submit"
  /\ IF ~ShouldSubmit(variant, cur.target, cur.answer)
     THEN /\ cur' = [cur EXCEPT !.resp = IF variant = "deadline" THEN Undef ELSE Null]
          /\ pc' = "endstep"
          /\ UNCHANGED <<status, resBody, clock, obs>>
     ELSE \E n \in PayloadSizes(variant) :
          IF ~WithinCap(variant, n)
          THEN /\ cur' = [cur EXCEPT !.resp = TooLargeObj, !.bytes = n]
               /\ pc' = "endstep"
               /\ UNCHANGED <<status, resBody, clock, obs>>
          ELSE
          \E r \in Responses,
             d \in (IF variant = "deadline" THEN SubmitDurations ELSE {0}) :
          LET o    == SubmitOutcome(variant, r)
              seen == [obs EXCEPT !.lastPost =
                         StepPayload(cur.target.s, req.email, req.secret,
                                     currentUrl, cur.answer)]
          IN
          /\ clock' = clock + d
          /\ IF o.k = "throw"
             THEN /\ Respond(500, [kind |-> "server-error", rec |-> NoRec])
                  /\ obs' = [seen EXCEPT !.threw = "submit"]
                  /\ cur' = [cur EXCEPT !.posted = TRUE, !.bytes = n,
                                         !.got = r.kind]
             ELSE /\ cur' = [cur EXCEPT !.resp = o.resp, !.posted = TRUE,
                                         !.bytes = n, !.got = r.kind]
                  /\ obs' = seen
                  /\ pc' = "endstep"
                  /\ UNCHANGED <<status, resBody>>
  /\ UNCHANGED <<variant, req, browsers, pagesOpen, step, currentUrl, page,
                 lastResult, startedAt>>

(***************************************************************************)
(* End of the step: the page is closed, the record of the step is kept,    *)
(* and the response decides whether the chain goes on.                     *)
(*   chain  part_001 421-439       index   index.js 494-511                *)
(*   index2 index.js 637-647, 670-673      part0 part_000 135-141, 198-202 *)
(*   deadline part_001 521-533                                             *)
(***************************************************************************)
\* the record a step leaves
StepRecord ==
  CASE variant = "chain" ->
         [NoRec EXCEPT !.url = currentUrl, !.instr = cur.instr,
                       !.preview = IF cur.x.text # TxEmpty THEN Str(cur.x.text) ELSE Null,
                       !.answer = cur.answer, !.reason = cur.reason,
                       !.target = cur.target, !.resp = cur.resp]
    [] variant = "index" ->
         [NoRec EXCEPT !.url = currentUrl, !.instr = cur.instr,
                       !.answer = cur.answer, !.reason = cur.reason,
                       !.target = cur.target, !.resp = cur.resp]
    [] variant = "index2" ->
         [NoRec EXCEPT !.preview = Str(page.bodyText),
                       !.answer = cur.answer, !.reason = cur.reason,
                       !.target = cur.target, !.resp = cur.resp]
    [] variant = "part0" ->
         [NoRec EXCEPT !.preview = Str(cur.x.text),
                       !.answer = cur.answer, !.reason = cur.reason,
                       !.target = Coalesce(Get(cur.resp, "url"), NullP),
                       !.resp = cur.resp]
    [] OTHER ->
         IF cur.posted THEN [lastResult EXCEPT !.resp = cur.resp] ELSE lastResult

\* a response that is truthy continues the chain, whatever it carries
FollowsAnyResponse(resp) == Truthy(resp)

\* submitResponse && submitResponse.url
Follows(resp) == Truthy(resp) /\ Truthy(Get(resp, "url"))

EndStep ==
  /\ pc = "endstep"
  /\ pagesOpen' = IF variant \in {"chain", "index", "index2"}
                  THEN pagesOpen - 1 ELSE pagesOpen
  /\ page' = NoPage
  /\ lastResult' = StepRecord
  /\ IF Follows(cur.resp)
     THEN /\ currentUrl' = Get(cur.resp, "url").s
          /\ step' = IF variant = "deadline" THEN step ELSE step + 1
          /\ pc' = "loop"
     ELSE /\ pc' = "close"
          /\ UNCHANGED <<currentUrl, step>>
  /\ UNCHANGED <<variant, req, status, resBody, browsers, cur, clock,
                 startedAt, obs>>

(***************************************************************************)
(* Done: browser.close() and the response.                                 *)
(*   chain  part_001 442-443, 454-455   index  index.js 514-515, 527-528   *)
(*   index2 index.js 677-687            part0  part_000 206-216            *)
(*   deadline part_001 536                                                  *)
(***************************************************************************)
\* x ?? null
OrNull(v) == IF v.t \in {"undef", "null"} THEN Null ELSE v

OkBody ==
  IF variant \in {"chain", "index", "deadline"}
  THEN [kind |-> "ok", rec |-> lastResult]
  ELSE [kind |-> "ok",
        rec |-> [NoRec EXCEPT !.url = req.url.s,
                              !.target = Coalesce(lastResult.target, NullP),
                              !.answer = OrNull(lastResult.answer),
                              !.reason = OrNull(lastResult.reason),
                              !.preview = OrNull(lastResult.preview),
                              !.resp = OrNull(lastResult.resp)]]

Close ==
  /\ pc = "close"
  /\ browsers' = IF variant = "deadline" THEN browsers ELSE browsers - 1
  /\ pagesOpen' = IF variant = "deadline" THEN pagesOpen ELSE 0
  /\ Respond(200, OkBody)
  /\ UNCHANGED <<variant, req, step, currentUrl, page, cur, lastResult, clock,
                 startedAt, obs>>

Next ==
  \/ Validate
  \/ Start
  \/ Bootstrap
  \/ LoopTop
  \/ Render
  \/ Extract
  \/ Resolve
  \/ Submit
  \/ EndStep
  \/ Close

Spec == Init /\ [][Next]_vars


(***************************************************************************)
(* Properties.                                                             *)
(***************************************************************************)
\* the generations whose chain is driven by a for loop of MAX_STEPS steps
\* and that make the initial submission
ChainVariants == {"chain", "index", "part0"}

\* positions inside a step, after the page was rendered
InStep == {"extract", "resolve", "submit", "endstep", "blocked"}

\* a response that is an object with a non-empty url
CarriesUrl(resp) ==
  resp.t = "obj" /\ resp.o.url.t = "str" /\ resp.o.url.s # ""

\* a response that is an object with a url field, whatever its value
HasUrlField(resp) == resp.t = "obj" /\ resp.o.url.t # "undef"

\* equal, where null and undefined count as the same (x ?? null)
SameOrNull(a, b) ==
  IF a.t \in {"null", "undef"} THEN b.t \in {"null", "undef"} ELSE a = b

\* the request passes neither check of the handler
RequestMissing ==
  req.email.t = "undef" \/ req.email = Str("")
  \/ req.secret.t = "undef" \/ req.secret = Str("")
  \/ req.url.t = "undef" \/ req.url = Str("")
RequestWrongSecret == req.secret # Str("my-top-secret-123")

\* ------------------------------------------------------------------------
\* C1: for every behaviour of the submit endpoint the step loop renders at
\* most MAX_STEPS pages and then reaches Done; no execution of the chain
\* stays inside a step forever.  Stated as: at most MAX_STEPS renders, and
\* no step is left waiting on an await that never settles.
\* Violated: a heatmap step whose image loads waits forever on page.evaluate.
C1_TerminatesWithinMaxSteps ==
  variant \in ChainVariants =>
    /\ obs.renders <= MAX_STEPS
    /\ pc # "blocked"

\* ------------------------------------------------------------------------
\* C2: when the start URL ends with /project2, exactly one bootstrap POST
\* is sent before any render; a failed request or a response that is
\* missing, unparseable or without url ends the chain with reason
\* initial-submit-failed and no render; otherwise the first page rendered
\* is the returned url.
\* Violated: "index" and "part0" answer 500 when the request fails.
BadBootResponse(r) ==
  r.kind # "json" \/ ~CarriesUrl(r.v)

C2_BootstrapOrFail ==
  (variant \in ChainVariants /\ ~RequestMissing /\ ~RequestWrongSecret
   /\ req.url = Str(RootUrl)) =>
    /\ obs.bootPosts <= 1
    /\ obs.renders > 0 => obs.bootPosts = 1
    /\ (obs.bootPosts = 1 /\ BadBootResponse(obs.bootResp)) =>
         /\ pc = "responded"
         /\ resBody.kind = "initial-submit-failed"
         /\ obs.renders = 0
    /\ (obs.bootPosts = 1 /\ ~BadBootResponse(obs.bootResp) /\ obs.renders = 1) =>
         obs.lastRender = obs.bootResp.v.o.url.s

\* ------------------------------------------------------------------------
\* C3: in every step a submission is sent if and only if the step has both
\* a submit target and an answer that is neither null nor absent.
\* Violated: the "deadline" handler posts a null answer.
C3_SubmitIffTargetAndAnswer ==
  (variant \in {"chain", "deadline"} /\ pc = "endstep") =>
    (cur.posted <=> (Truthy(cur.target) /\ cur.answer.t \notin {"null", "undef"}))

\* ------------------------------------------------------------------------
\* C4 (as amended): the chain proceeds from step k to step k+1 if and only
\* if the response of step k is an object with a non-empty url and step k
\* is not the MAX_STEPS-th; the page rendered at step k+1 is that url;
\* otherwise the chain goes to Done with no further render.
C4_ContinuesOnUrlBelowMaxSteps ==
  variant \in {"chain", "index"} =>
    /\ (pc \in {"loop", "render"} /\ step > 0) =>
         /\ CarriesUrl(lastResult.resp)
         /\ currentUrl = lastResult.resp.o.url.s
    /\ pc = "render" => step < MAX_STEPS
    /\ (pc \in InStep /\ step > 0) =>
         /\ CarriesUrl(lastResult.resp)
         /\ obs.lastRender = lastResult.resp.o.url.s
         /\ obs.renders = step + 1
    /\ pc = "close" =>
         IF CarriesUrl(lastResult.resp)
         THEN step = MAX_STEPS /\ obs.renders = MAX_STEPS
         ELSE obs.renders = step + 1

\* C4 witness: the chain has followed the url of the first response and is
\* inside its second step
C4_FollowedUrl ==
  /\ variant = "chain"
  /\ pc = "extract"
  /\ step = 1
  /\ lastResult.resp = UrlObj(UrlB)
  /\ obs.lastRender = UrlB

\* C4 as stated: the chain goes to Done only when the response of the last
\* step has no url field
C4_DoneOnlyWithoutUrlField ==
  (variant \in {"chain", "index"} /\ pc = "close") =>
    ~HasUrlField(lastResult.resp)

\* ------------------------------------------------------------------------
\* C5: on Done the record returned is that of the last step executed: its
\* url, answer, reason, submit target and submit response all come from
\* that step.
\* Violated: "index2" and "part0" report the start URL of the request with
\* the fields of the last step, and "part0" reports the next URL as target.
C5_ReturnsLastStepRecord ==
  (variant \in {"chain", "index2", "part0"} /\ pc = "responded"
   /\ status = 200 /\ resBody.kind = "ok" /\ obs.renders > 0) =>
    /\ resBody.rec.url = obs.lastRender
    /\ SameOrNull(resBody.rec.answer, cur.answer)
    /\ SameOrNull(resBody.rec.reason, cur.reason)
    /\ SameOrNull(resBody.rec.target, cur.target)
    /\ SameOrNull(resBody.rec.resp, cur.resp)

\* ------------------------------------------------------------------------
\* C6: on every exit path every browser and page that was opened has been
\* closed when the request finishes.
\* Violated: an exception, and the failed initial submission of "part0",
\* leave the browser open.
C6_ResourcesReleased ==
  (variant \in ChainVariants /\ pc = "responded") =>
    browsers = 0 /\ pagesOpen = 0

\* ------------------------------------------------------------------------
\* C7: the endpoint answers 400 when email, secret or url is missing and
\* 403 when the secret does not match, the missing-field check first, and
\* in both cases nothing was launched, rendered or submitted.
C7_ValidationBeforeWork ==
  /\ (RequestMissing \/ RequestWrongSecret) =>
       /\ obs = NoObs
       /\ browsers = 0
       /\ pagesOpen = 0
       /\ pc \in {"recv", "responded"}
  /\ (pc = "responded" /\ RequestMissing) =>
       status = 400 /\ resBody.kind = "missing-fields"
  /\ (pc = "responded" /\ ~RequestMissing /\ RequestWrongSecret) =>
       status = 403 /\ resBody.kind = "invalid-secret"

\* C7 witness: a request that lacks a field and carries a wrong secret was
\* answered 400
C7_MissingAndWrongSecret ==
  /\ pc = "responded"
  /\ status = 400
  /\ req.secret = Str("wrong")
  /\ req.url.t = "undef"

\* ------------------------------------------------------------------------
\* C8: in the deadline-bounded loop no step starts once deadlineMs have
\* elapsed since the request began; the test is made at the top of the
\* loop only, so a step that began in time runs to its end, and after it
\* no page is rendered even when its response carried a next URL.
C8_NoStepAfterDeadline ==
  variant = "deadline" =>
    /\ pc = "render" => (currentUrl # "" /\ clock - startedAt < 3 * 60 * 1000)
    /\ obs.renders > 0 => obs.startClock - startedAt < 3 * 60 * 1000
    /\ (pc \in {"close", "responded"} /\ CarriesUrl(lastResult.resp)) =>
         clock - startedAt >= 3 * 60 * 1000

\* C8 witness: a step that began before the deadline finished after it, its
\* response carried a next URL, and the request was answered
C8_StoppedByDeadline ==
  /\ variant = "deadline"
  /\ pc = "responded"
  /\ status = 200
  /\ cur.posted
  /\ CarriesUrl(lastResult.resp)
  /\ obs.startClock - startedAt < 3 * 60 * 1000
  /\ clock - startedAt > 3 * 60 * 1000

\* ------------------------------------------------------------------------
\* C9 (as amended): when the query of the preformatted blocks succeeds and
\* some block's trimmed text parses to a truthy JSON value, extraction
\* returns the parse of the first such block, whatever else the page holds.
ParsesTruthy(t) == JsonParse(Trim(t)).ok /\ Truthy(JsonParse(Trim(t)).v)

C10_ExtractorNeverThrows ==
  variant \in ChainVariants => obs.threw # "extract"

C12_ExplicitAnswerVerbatim ==
  (variant \in {"chain", "index"} /\ cur.instr.o.answer.t # "undef") =>
    /\ pc \in {"submit", "endstep", "close", "loop"}
         \/ (pc = "responded" /\ status = 200) =>
           /\ cur.answer = Lift(cur.instr.o.answer)
           /\ cur.reason = Str("explicit")
    /\ pc # "blocked"
    /\ obs.threw # "resolve"

\* C12 witness: the URL of the step names the uv task, the instruction
\* carries the answer 42, and the step answers 42
C12_ExplicitBeatsUrlKeyword ==
  /\ variant = "chain"
  /\ pc = "submit"
  /\ currentUrl = UrlUv
  /\ page = PExplicit
  /\ cur.answer = Num(42)
  /\ cur.reason = Str("explicit")

\* ------------------------------------------------------------------------
\* C13: a submission is rejected with the marker payload-too-large, and no
\* request is made for it, if and only if the serialized payload is longer
\* than 1 MiB (1,048,576 bytes); a payload of at most 1 MiB is posted.
C13_RejectedIffAboveOneMiB ==
  (/\ variant \in {"chain", "index"}
   /\ pc = "endstep"
   /\ ChainShouldSubmit(cur.target, cur.answer)) =>
    /\ (cur.resp = TooLargeObj /\ ~cur.posted) <=> cur.bytes > PayloadCap
    /\ cur.bytes <= PayloadCap => cur.posted

\* ------------------------------------------------------------------------
\* C14: a network failure or an unparseable response on the submission of
\* a step never propagates as an exception: the step ends with its record,
\* the chain ends at that step, and the endpoint answers 200.
C14_SubmitFailureCaptured ==
  (/\ variant \in {"chain", "part0", "index2"}
   /\ cur.got \in {"netfail", "badjson"}) =>
    /\ obs.threw # "submit"
    /\ pc \in {"endstep", "close", "responded"}
    /\ pc \in {"close", "responded"} => lastResult.resp = cur.resp
    /\ pc = "responded" => status = 200 /\ resBody.kind = "ok"

(***************************************************************************)
(* normalizeCSVText (part_001 201-227, index.js 256-286).  The text is     *)
(* taken after line 202: a sequence of lines, each the sequence of its     *)
(* trimmed cells, a blank line being <<>>; the first line is the header.   *)
(***************************************************************************)
\* the number NaN
NaN == [t |-> "nan", n |-> 0, s |-> "", o |-> NoFields]

\* header[j].toLowerCase()
Lower(h) ==
  CASE h = "ID" -> "id" [] h = "Name" -> "name" [] h = "Value" -> "value"
    [] h = "Join Date" -> "join date" [] OTHER -> h

\* key.replace(/[^a-z0-9]+/gi, "_")
RecKey(key) == IF key = "join date" THEN "join_date" ELSE key

\* parseInt(c): the integer a cell starts with, NaN when it starts with none
ParseInt(c) ==
  CASE c = "1" -> Num(1) [] c = "2" -> Num(2) [] c = "3" -> Num(3)
    [] c = "7" -> Num(7) [] c = "7 kg" -> Num(7) [] c = "-4" -> Num(0 - 4)
    [] c = "2024-01-05" -> Num(2024)
    [] OTHER -> NaN

\* String(v).replace(/[^\d-]/g, "")
DigitsOf(c) ==
  CASE c = "7 kg" -> "7" [] c = "-4" -> "-4" [] c = "x7" -> "7"
    [] c = "2024-01-05" -> "2024-01-05" [] c = "Jan 5 2024" -> "52024"
    [] c \in {"1", "2", "3"} -> c
    [] OTHER -> ""

\* isoDate (part_001 38-47, index.js 37-47) on a server whose zone is UTC:
\* yyyy-mm-dd of a text Date parses, the text itself otherwise
isoDate(s) == IF s \in {"2024-01-05", "Jan 5 2024"} THEN "2024-01-05" ELSE s

\* /^id$/i (part_001 212) and /id/i (index.js 270); no other key of the
\* model contains "id"
IsIdKey(v, key)  == key = "id"
\* /value/i
IsValueKey(key)  == key = "value"
\* /joined|date|created/i
IsDateKey(key)   == key \in {"joined", "join date"}

\* the value a cell c leaves under key (lines 212-214); no key of the model
\* matches two of the patterns
CellValue(v, key, c) ==
  IF IsIdKey(v, key) THEN ParseInt(c)
  ELSE IF IsValueKey(key)
       THEN (IF Truthy(ParseInt(DigitsOf(c))) THEN ParseInt(DigitsOf(c)) ELSE Num(0))
  ELSE IF IsDateKey(key) THEN Str(isoDate(c))
  ELSE Str(c)

\* rec[k] after the loop over the columns: the last column of the key wins
RecField(v, header, row, k) ==
  LET js == {j \in 1..Len(header) : RecKey(Lower(header[j])) = k}
      j  == CHOOSE m \in js : \A o \in js : o <= m
  IN  IF js = {} THEN Undef ELSE CellValue(v, Lower(header[j]), row[j])

\* a ?? b on values
Default(a, b) == IF a.t \in {"undef", "null"} THEN b ELSE a

\* the record pushed for row i (lines 217-222)
CsvRecord(v, header, row, i) ==
  [id     |-> Default(RecField(v, header, row, "id"), Num(i)),
   name   |-> Default(RecField(v, header, row, "name"), Str("")),
   joined |-> Default(RecField(v, header, row, "joined"), Null),
   value  |-> Default(RecField(v, header, row, "value"), Num(0))]

\* the loop of lines 206-223 from row i on
RECURSIVE CsvRecords(_, _, _, _)
CsvRecords(v, header, rows, i) ==
  IF i > Len(rows) THEN <<>>
  ELSE IF Len(rows[i]) # Len(header) THEN CsvRecords(v, header, rows, i + 1)
  ELSE <<CsvRecord(v, header, rows[i], i - 1)>>
       \o CsvRecords(v, header, rows, i + 1)

\* out.sort((a, b) => a.id - b.id): the stable ascending order when every
\* id is a number; with a NaN id the comparator is inconsistent and the
\* order is whatever the engine's sort leaves
SortOutcomes(out) ==
  LET n     == Len(out)
      perms == {p \in [1..n -> 1..n] : \A a, b \in 1..n : p[a] = p[b] => a = b}
      Asc(p) == \A a, b \in 1..n : a < b =>
                  \/ out[p[a]].id.n < out[p[b]].id.n
                  \/ out[p[a]].id.n = out[p[b]].id.n /\ p[a] < p[b]
  IN  {[k \in 1..n |-> out[p[k]]] :
         p \in {q \in perms : (\A k \in 1..n : out[k].id.t = "num") => Asc(q)}}

\* .filter(Boolean) of line 202
NonBlank(lines) == SelectSeq(lines, LAMBDA l : l # <<>>)

\* the results of normalizeCSVText on lines: part_001 203 returns [] for a
\* text without lines, index.js 259 reads rows[0].map of undefined
normalizeCSVText(v, lines) ==
  LET rows == NonBlank(lines)
  IN  IF Len(rows) < 1 THEN (IF v = "chain" THEN {Returned(<<>>)} ELSE {Threw})
      ELSE {Returned(s) : s \in SortOutcomes(CsvRecords(v, rows[1], rows, 2))}

(***************************************************************************)
(* The image of a heatmap (part_001 164-194, index.js 194-230).  An image  *)
(* is its outcome of loading and, once loaded, its pixels in scan order,   *)
(* each the triple <<r, g, b>> of getImageData.                            *)
(***************************************************************************)
HexDigits ==
  <<"0", "1", "2", "3", "4", "5", "6", "7", "8", "9", "a", "b", "c", "d",
    "e", "f">>

\* function toHex(n) { return n.toString(16).padStart(2, "0"); }
toHex(n) == HexDigits[(n \div 16) + 1] \o HexDigits[(n % 16) + 1]

\* the keys of counts in their order of insertion: the colours of the
\* pixels from i on that are not in seen, each once
RECURSIVE CountKeys(_, _, _)
CountKeys(pixels, i, seen) ==
  IF i > Len(pixels) THEN <<>>
  ELSE IF pixels[i] \in seen THEN CountKeys(pixels, i + 1, seen)
  ELSE <<pixels[i]>> \o CountKeys(pixels, i + 1, seen \cup {pixels[i]})

\* counts[key]
PixelCount(pixels, c) == Cardinality({i \in 1..Len(pixels) : pixels[i] = c})

\* for (const k in counts) if (counts[k] > bestc) { bestc = counts[k];
\* best = k; } from key i on; best is <<>> for null
RECURSIVE BestKey(_, _, _, _, _)
BestKey(pixels, keys, i, best, bestc) ==
  IF i > Len(keys) THEN best
  ELSE IF PixelCount(pixels, keys[i]) > bestc
       THEN BestKey(pixels, keys, i + 1, keys[i], PixelCount(pixels, keys[i]))
  ELSE BestKey(pixels, keys, i + 1, best, bestc)

\* the value the onload handler returns: "#" + toHex(r) + toHex(g) +
\* toHex(b) of the best key, null without one
OnloadReturn(pixels) ==
  LET best == BestKey(pixels, CountKeys(pixels, 1, {}), 1, <<>>, 0)
  IN  IF best = <<>> THEN Null
      ELSE Str("#" \o toHex(best[1]) \o toHex(best[2]) \o toHex(best[3]))

\* what page.evaluate comes to: the promise is settled by resolve alone,
\* which onerror and the catch block of onload call; the value onload
\* returns goes to nobody
HeatmapOfImage(img) ==
  IF img.state \in {"error", "tainted"} THEN Returned(Null)
  ELSE Pending

(***************************************************************************)
(* The solvers as functions.  A second specification applies one solver    *)
(* to one input: req holds the call, cur its result, variant the           *)
(* generation of the solver ("chain" is part_001, "index" is index.js);    *)
(* the other variables stay as they are before a request.                  *)
(***************************************************************************)
FnVariants == {"chain", "index"}

\* an email of even length beside the odd one
EmailEven == "a@c.de"
FnEmails  == {Email, EmailEven}

Tree2      == <<"docs/d.md", "src/c.md", "docs/a.md", "docs/b.txt">>
GhListings == {[ok |-> FALSE, tree |-> <<>>], [ok |-> TRUE, tree |-> <<>>],
               [ok |-> TRUE, tree |-> Tree1], [ok |-> TRUE, tree |-> Tree2]}

GhParams ==
  {Obj([NoFields EXCEPT !.owner = o, !.repo = r, !.sha = s,
                        !.pathPrefix = pp, !.extension = x]) :
     o \in {UndefP, StrP("o")}, r \in {UndefP, StrP("r")},
     s \in {UndefP, StrP("abc")},
     pp \in {UndefP, StrP(""), StrP("docs/")},
     x \in {UndefP, StrP(""), StrP(".md"), StrP(".txt")}}

GhTreeCalls ==
  [fn : {"gh-tree"}, params : GhParams, email : FnEmails, gh : GhListings]

\* CSV texts: a header and up to MaxCsvRows lines of data
MaxCsvRows == 3
CsvHeaders == {<<"id", "name", "joined", "value">>,
               <<"ID", "Name", "Join Date", "Value">>,
               <<"name", "value">>}
CsvLines   == {<<"2", "Ann", "2024-01-05", "7 kg">>,
               <<"1", "Bob", "soon", "x">>,
               <<"x7", "Cy", "Jan 5 2024", "-4">>,
               <<"3", "Dee">>,
               <<>>}
CsvTexts ==
  {<<>>} \cup
  UNION {{<<h>> \o d : h \in CsvHeaders, d \in [1..n -> CsvLines]} :
           n \in 0..MaxCsvRows}
CsvCalls == [fn : {"csv"}, lines : CsvTexts]

\* pages for the extractor: no block that parses, a results container
\* that is absent, empty or filled, and up to MaxScripts inline scripts;
\* the document is the text of these parts, and none of them holds a brace
MaxScripts   == 2
ScriptBodies == {ScPlain, ScAtobMd, ScAtobWrap, ScAtobJunk, ScAtobNull,
                 ScAtobTwo}
ScriptSeqs   == UNION {[1..n -> ScriptBodies] : n \in 0..MaxScripts}

RECURSIVE ScriptTags(_, _)
ScriptTags(scripts, i) ==
  IF i > Len(scripts) THEN ""
  ELSE "<script>" \o scripts[i] \o "</script>" \o ScriptTags(scripts, i + 1)

PageHtml(pres, result, scripts) ==
  "<html><head>" \o ScriptTags(scripts, 1) \o "</head><body>"
  \o (IF pres = <<>> THEN "" ELSE "<pre>" \o pres[1] \o "</pre>")
  \o (IF result = NoElement THEN ""
      ELSE "<div id=\"result\">" \o result \o "</div>")
  \o "</body></html>"

ExtractPages ==
  {[BasePage EXCEPT !.pres = ps, !.result = r, !.scripts = sc,
                    !.html = PageHtml(ps, r, sc)] :
     ps \in {<<>>, <<TxJunk>>}, r \in {NoElement, TxEmpty, TxJunk},
     sc \in ScriptSeqs}
ExtractCalls == [fn : {"extract"}, page : ExtractPages]

\* images: up to MaxPixels pixels of three colours
MaxPixels == 3
Colours   == {<<255, 0, 0>>, <<0, 0, 255>>, <<10, 171, 9>>}
HeatImages ==
  {[state |-> s, pixels |-> <<>>] : s \in {"error", "tainted"}} \cup
  {[state |-> "loaded", pixels |-> px] :
     px \in UNION {[1..n -> Colours] : n \in 0..MaxPixels}}
HeatmapCalls == [fn : {"heatmap"}, img : HeatImages]

FnCalls == GhTreeCalls \cup CsvCalls \cup HeatmapCalls \cup ExtractCalls

NoFnResult == [fn |-> "none"]

InitFn ==
  /\ variant \in FnVariants
  /\ req \in FnCalls
  /\ pc = "fn-call"
  /\ cur = NoFnResult
  /\ status = 0
  /\ resBody = NoBody
  /\ browsers = 0
  /\ pagesOpen = 0
  /\ step = 0
  /\ currentUrl = ""
  /\ page = NoPage
  /\ lastResult = NoRec
  /\ clock = 0
  /\ startedAt = 0
  /\ obs = NoObs

FnReturn(result) ==
  /\ cur' = result
  /\ pc' = "fn-done"
  /\ UNCHANGED <<variant, req, status, resBody, browsers, pagesOpen, step,
                 currentUrl, page, lastResult, clock, startedAt, obs>>

\* the gh-tree branch of solveChain on parameters that are the instruction
\* (part_001 369-375, index.js 427-434)
GhTreeOf(v, call) ==
  IF v = "chain" THEN solveGHTreeFromParams(call.params, call.email, call.gh)
  ELSE solveGHTreeFromJson(call.params, call.email, call.gh)

CallGhTree ==
  /\ pc = "fn-call"
  /\ req.fn = "gh-tree"
  /\ \E r \in {GhTreeOf(variant, req)} :
       FnReturn([fn |-> "gh-tree", out |-> r, step |-> GhTreeStep(r),
                 requested |-> GhTreeRequested(variant, req.params)])

CallNormalizeCsv ==
  /\ pc = "fn-call"
  /\ req.fn = "csv"
  /\ \E r \in normalizeCSVText(variant, req.lines) :
       FnReturn([fn |-> "csv", out |-> r])

CallHeatmap ==
  /\ pc = "fn-call"
  /\ req.fn = "heatmap"
  /\ FnReturn([fn |-> "heatmap", out |-> HeatmapOfImage(req.img),
               onload |-> IF req.img.state = "loaded"
                          THEN OnloadReturn(req.img.pixels) ELSE Undef])

\* extractInstructionFromPage of the generation; out is the instruction
\* (Null for none), text the raw or preview text of part_001
ExtractOf(v, p) ==
  IF v = "chain"
  THEN LET x == extractInstructionFromPage(p)
       IN  [kind |-> x.kind,
            json |-> IF x.kind = "json" THEN x.json ELSE Null,
            text |-> x.text]
  ELSE LET r == extractInstructionFromPageIndex(p)
       IN  IF r.threw THEN [kind |-> "throw", json |-> Null, text |-> TxEmpty]
           ELSE IF r.v.t = "null"
                THEN [kind |-> "null", json |-> Null, text |-> TxEmpty]
           ELSE IF Get(r.v, "preview").t = "str"
                THEN [kind |-> "preview", json |-> Null,
                      text |-> Get(r.v, "preview").s]
           ELSE [kind |-> "json", json |-> r.v, text |-> TxEmpty]

CallExtract ==
  /\ pc = "fn-call"
  /\ req.fn = "extract"
  /\ \E r \in {ExtractOf(variant, req.page)} :
       FnReturn([fn |-> "extract", out |-> r])

NextFn ==
  \/ CallGhTree
  \/ CallNormalizeCsv
  \/ CallHeatmap
  \/ CallExtract

SpecFn == InitFn /\ [][NextFn]_vars

\* ------------------------------------------------------------------------
\* C15: gh-tree resolution returns the number of entries of the tree whose
\* path starts with pathPrefix and ends with extension, ".md" when the
\* extension is unspecified, plus the length of the email modulo 2, for
\* every listing and email.
C15_GhTreeCount ==
  (/\ pc = "fn-done"
   /\ cur.fn = "gh-tree"
   /\ req.gh.ok
   /\ \A f \in {"owner", "repo", "sha"} : Get(req.params, f).t = "str"
   /\ Get(req.params, "pathPrefix").t = "str") =>
    LET ext == IF Get(req.params, "extension").t = "undef" THEN ".md"
               ELSE Get(req.params, "extension").s
        hit == {i \in 1..Len(req.gh.tree) :
                  /\ StartsWith(req.gh.tree[i], Get(req.params, "pathPrefix").s)
                  /\ EndsWith(req.gh.tree[i], ext)}
    IN  cur.out = Returned(Num(Cardinality(hit) + (Len(req.email) % 2)))

\* ------------------------------------------------------------------------
\* C16: when owner, repo or sha is absent from the gh-tree parameters,
\* resolution fails before any request to the tree API, and the step ends
\* with a null answer and reason gh-tree-error, so nothing is submitted.
C16_MissingParamsFailBeforeRequest ==
  (/\ pc = "fn-done"
   /\ cur.fn = "gh-tree"
   /\ \E f \in {"owner", "repo", "sha"} : Get(req.params, f).t = "undef") =>
    /\ ~cur.requested
    /\ cur.out = Threw
    /\ cur.step.answer = Null
    /\ cur.step.reason = Str("gh-tree-error")
    /\ ~ChainShouldSubmit(StrP(SubmitUrl), cur.step.answer)

\* ------------------------------------------------------------------------
\* C17: for every CSV text with a header row and N data rows,
\* normalizeCSVText returns at most N records, each with an integer id, a
\* string name, a joined that is an ISO date or the original text, and an
\* integer value, sorted ascending by id.
C17_NormalizedRecords ==
  (pc = "fn-done" /\ cur.fn = "csv" /\ Len(NonBlank(req.lines)) >= 1) =>
    /\ cur.out.out = "ok"
    /\ Len(cur.out.v) <= Len(NonBlank(req.lines)) - 1
    /\ \A k \in 1..Len(cur.out.v) :
         /\ cur.out.v[k].id.t = "num"
         /\ cur.out.v[k].name.t = "str"
         /\ cur.out.v[k].joined.t \in {"str", "null"}
         /\ cur.out.v[k].value.t = "num"
    /\ \A a, b \in 1..Len(cur.out.v) :
         a < b => cur.out.v[a].id.n <= cur.out.v[b].id.n

\* ------------------------------------------------------------------------
\* C18: heatmap resolution returns the RGB triple with the highest pixel
\* count in the image as a lowercase #rrggbb string; among triples with the
\* same highest count the one met first in the scan is returned.
C18_MostFrequentColour ==
  (/\ pc = "fn-done"
   /\ cur.fn = "heatmap"
   /\ req.img.state = "loaded"
   /\ req.img.pixels # <<>>) =>
    LET px       == req.img.pixels
        First(c) == CHOOSE i \in 1..Len(px) :
                      px[i] = c /\ \A j \in 1..(i - 1) : px[j] # c
        top      == CHOOSE c \in Colours :
                      /\ PixelCount(px, c) > 0
                      /\ \A d \in Colours \ {c} :
                           \/ PixelCount(px, d) < PixelCount(px, c)
                           \/ /\ PixelCount(px, d) = PixelCount(px, c)
                              /\ First(c) < First(d)
    IN  cur.out = Returned(Str("#" \o toHex(top[1]) \o toHex(top[2])
                                  \o toHex(top[3])))

\* ------------------------------------------------------------------------
\* C19: a step whose instruction names a task that is none of the known
\* kinds reports the reason "unknown-task"; a known task whose strategy
\* gives no answer reports "no-answer-generated"; in both cases nothing is
\* submitted and the chain ends at that step.
C19_UnknownTaskReported ==
  (/\ variant = "part0"
   /\ pc \in {"submit", "endstep", "close", "responded"}
   /\ Get(cur.instr, "task").t = "str"
   /\ ~Truthy(cur.answer)) =>
    /\ cur.reason =
         IF Get(cur.instr, "task").s \in Part0Tasks
         THEN Str("no-answer-generated") ELSE Str("unknown-task")
    /\ ~cur.posted
    /\ pc \in {"close", "responded"}
    /\ pc = "responded" => resBody.rec.reason = cur.reason

Chains       == {1, 2}
PairVariants == {"chain", "deadline"}
PairPages    == {PMd, PExplicit}

\* the network of a step: no CSV resource, no tree API
PairEnv == [csvFetch |-> "fail", gh |-> [ok |-> FALSE, tree |-> <<>>]]

NoChain == [at |-> "idle", browser |-> 0, page |-> NoPage, result |-> NoRec]
NoFile  == [content |-> "", writers |-> {}]

InitPair ==
  /\ variant \in PairVariants
  /\ req \in [Chains -> {Str(UrlA), Str(UrlB)}]
  /\ pc = "pair"
  /\ cur = [c \in Chains |-> NoChain]
  /\ obs = NoFile
  /\ status = 0
  /\ resBody = NoBody
  /\ browsers = 0
  /\ pagesOpen = 0
  /\ step = 0
  /\ currentUrl = ""
  /\ page = NoPage
  /\ lastResult = NoRec
  /\ clock = 0
  /\ startedAt = 0

PairFrame ==
  UNCHANGED <<variant, req, pc, status, resBody, step, currentUrl, page,
              lastResult, clock, startedAt>>

\* chromium.launch (part_001 275, 553): a browser of the call's own
PairLaunch(c) ==
  /\ cur[c].at = "idle"
  /\ cur' = [cur EXCEPT ![c].at = "launched", ![c].browser = c]
  /\ browsers' = browsers + 1
  /\ UNCHANGED <<pagesOpen, obs>>
  /\ PairFrame

\* newPage, goto and content (part_001 305-321, 556-566)
PairLoad(c) ==
  /\ cur[c].at = "launched"
  /\ \E p \in PairPages :
       cur' = [cur EXCEPT ![c].at = IF variant = "deadline" THEN "loaded"
                                    ELSE "ready",
                          ![c].page = p]
  /\ pagesOpen' = pagesOpen + 1
  /\ UNCHANGED <<browsers, obs>>
  /\ PairFrame

\* try { await fs.writeFile("page.html", html); } catch {} (part_001 569)
PairWriteFile(c) ==
  /\ cur[c].at = "loaded"
  /\ obs' = [content |-> cur[c].page.html, writers |-> obs.writers \cup {c}]
  /\ cur' = [cur EXCEPT ![c].at = "ready"]
  /\ UNCHANGED <<browsers, pagesOpen>>
  /\ PairFrame

\* the result of the step, from the page of the call
PairResult(v, url, p) ==
  IF v = "deadline"
  THEN LET r == DeadlineSolve(p, PairEnv)
       IN  [NoRec EXCEPT !.url = url, !.answer = r.answer,
                         !.reason = r.reason, !.target = r.target]
  ELSE LET r == ChainResolve(extractInstructionFromPage(p), p, url, Email,
                             PairEnv)
       IN  [NoRec EXCEPT !.url = url, !.answer = r.answer,
                         !.reason = r.reason]

\* the rest of the step and the close of page and browser (part_001
\* 323-440, 571-711)
PairSolve(c) ==
  /\ cur[c].at = "ready"
  /\ \E r \in {PairResult(variant, req[c].s, cur[c].page)} :
       cur' = [cur EXCEPT ![c].at = "done", ![c].result = r]
  /\ browsers' = browsers - 1
  /\ pagesOpen' = pagesOpen - 1
  /\ UNCHANGED obs
  /\ PairFrame

NextPair ==
  \E c \in Chains :
    \/ PairLaunch(c)
    \/ PairLoad(c)
    \/ PairWriteFile(c)
    \/ PairSolve(c)

SpecPair == InitPair /\ [][NextPair]_vars

\* ------------------------------------------------------------------------
\* C21: two chains running at once share no mutable state: neither reads
\* or overwrites a value (browser, result, file) written by the other, and
\* the result of each is the result of running it alone.
C21_NoSharedState ==
  /\ Cardinality(obs.writers) <= 1
  /\ \A c \in Chains :
       /\ cur[c].browser \in {0, c}
       /\ cur[c].at = "done" =>
            cur[c].result = PairResult(variant, req[c].s, cur[c].page)

\* ------------------------------------------------------------------------
\* C22: within one chain execution no URL is rendered more than once, so
\* at most one instruction and one answer are produced per visited URL.
C22_NoUrlRenderedTwice ==
  [][(variant \in {"chain", "index"} /\ obs'.renders > obs.renders) =>
       currentUrl \notin obs.visited]_vars

\* ------------------------------------------------------------------------
\* The predicates of the tasks as the two generations test them (part_001
\* 347-362, index.js 388-420), in the order of the code.
TaskOrder ==
  <<"uv", "git", "md", "audio-passphrase", "heatmap", "csv", "gh-tree">>

TaskPredicate(v, k, task, kw, uk) ==
  \/ task = StrP(k)
  \/ k = "uv"               /\ ("uv" \in kw \/ "uv" \in uk)
  \/ k = "git"              /\ "git" \in kw
  \/ k = "md"               /\ "md" \in kw
  \/ k = "audio-passphrase" /\ ("pass" \in kw \/ "audio-passphrase" \in uk)
  \/ k = "heatmap"          /\ ("heat" \in kw \/ "heatmap" \in uk)
  \/ k = "csv"              /\ ("csv" \in kw \/ "csv" \in uk)
  \/ k = "gh-tree"          /\ \/ (IF v = "chain" THEN "tree" ELSE "ghtree") \in kw
                                \/ "gh-tree" \in uk

\* the first task of the order whose predicate holds, "fallback" when none
FirstMatch(v, task, kw, uk) ==
  LET hits == {i \in 1..Len(TaskOrder) :
                 TaskPredicate(v, TaskOrder[i], task, kw, uk)}
  IN  IF hits = {} THEN "fallback"
      ELSE TaskOrder[CHOOSE i \in hits : \A j \in hits : i <= j]

\* the reasons the strategy of a task leaves
ReasonsOf(v, k) ==
  CASE k = "audio-passphrase" ->
         IF v = "chain" THEN {Str("audio")}
         ELSE {Str("audio-transcribed"), Str("audio-fallback")}
    [] k = "gh-tree"  -> {Str("gh-tree"), Str("gh-tree-error")}
    [] k = "fallback" -> {Str("html-table-sum"), Null}
    [] OTHER          -> {Str(k)}

\* the first matching task of the step in progress
StepFirstMatch ==
  IF variant = "chain"
  THEN FirstMatch("chain", Get(cur.instr, "task"), Mentions(cur.x.text),
                  UrlMentions(currentUrl))
  ELSE FirstMatch("index", Or(Get(cur.instr, "task"), Get(cur.instr, "type")),
                  PreviewMentions(Get(cur.instr, "preview")),
                  UrlMentions(currentUrl))

\* C23: for an instruction without an explicit answer the predicates of
\* the tasks are tested in the order uv, git, md, audio-passphrase,
\* heatmap, csv, gh-tree, then the fallback; the strategy that runs is that
\* of the first predicate that holds, and it is the only one.
C23_FirstMatchingPredicateRuns ==
  (/\ variant \in {"chain", "index"}
   /\ cur.instr.t # "undef"
   /\ Get(cur.instr, "answer").t = "undef") =>
    /\ pc \in {"submit", "endstep"} =>
         cur.reason \in ReasonsOf(variant, StepFirstMatch)
    /\ pc = "blocked" => StepFirstMatch = "heatmap"
    /\ obs.threw = "resolve" => StepFirstMatch = "csv"

\* C23 witness: an instruction tagged md on a URL that contains "uv": the
\* predicate of uv holds first and its strategy runs
C23_UvBeforeMdTag ==
  /\ variant = "chain"
  /\ pc = "submit"
  /\ currentUrl = UrlUv
  /\ Get(cur.instr, "task") = StrP("md")
  /\ cur.reason = Str("uv")

\* ------------------------------------------------------------------------
\* C24: when the instruction carries a task tag that is one of the known
\* kinds and no explicit answer, the strategy that runs is that of the tag,
\* whatever the preview text and the URL mention.
C24_TagDecides ==
  (/\ variant \in {"chain", "index"}
   /\ pc \in {"submit", "endstep"}
   /\ Get(cur.instr, "answer").t = "undef"
   /\ \E i \in 1..Len(TaskOrder) : Get(cur.instr, "task") = StrP(TaskOrder[i])) =>
    cur.reason \in ReasonsOf(variant, Get(cur.instr, "task").s)

\* ------------------------------------------------------------------------
\* the decoded literal of the first script of the page with a
\* base64-decoding call, NoMatch when no script has one
FirstDecoded(p) ==
  LET hits == {i \in 1..Len(p.scripts) : AtobLiteral(p.scripts[i]) # NoMatch}
  IN  IF hits = {} THEN NoMatch
      ELSE Base64Decode(AtobLiteral(
             p.scripts[CHOOSE i \in hits : \A j \in hits : i <= j]))

NoBlockParses(p) ==
  \A i \in 1..Len(p.pres) : ~Truthy(safeJsonParse(Trim(p.pres[i])))

\* the instruction recovered from a decoded text d
FromDecoded(x, d) ==
  \/ x.kind = "json" /\ x.json \in {safeJsonParse(d), safeJsonParse(BraceMatch(d))}
  \/ x.kind = "preview" /\ x.text = d

\* C25: whenever no preformatted block parses and some inline script has a
\* base64-decoding call on a literal, the extractor recovers the
\* instruction from that literal, whether or not the results container
\* exists or has content.
C25_ScriptRecoveryWithoutContainer ==
  (/\ pc = "fn-done"
   /\ cur.fn = "extract"
   /\ NoBlockParses(req.page)
   /\ FirstDecoded(req.page) # NoMatch) =>
    FromDecoded(cur.out, FirstDecoded(req.page))

\* ------------------------------------------------------------------------
\* the first brace-delimited substring of a decoded text: from its first
\* "{" to the first "}" after it
FirstBracePair(d) ==
  CASE d = TxTwoWrapped -> TxMd
    [] d = TxTwoSpan    -> TxMd
    [] OTHER            -> BraceMatch(d)

\* recovery is applied: no block parses, the results container has
\* content and some script has a literal
RecoveryApplies(p) ==
  /\ NoBlockParses(p)
  /\ HasResult(p)
  /\ FirstDecoded(p) # NoMatch

\* C26 (as amended): the decoded literal of the first script with a
\* base64-decoding call is resolved in this order: the whole text when it
\* parses to a truthy JSON value; else the span from its first "{" to its
\* last "}" when that parses to a truthy value; else the decoded text as a
\* preview; no later script and no later strategy is consulted.
C26_DecodedResolvedInOrder ==
  (pc = "fn-done" /\ cur.fn = "extract" /\ RecoveryApplies(req.page)) =>
    LET d == FirstDecoded(req.page)
    IN  IF JsonParse(d).ok /\ Truthy(JsonParse(d).v)
        THEN cur.out.kind = "json" /\ cur.out.json = JsonParse(d).v
        ELSE IF /\ BraceMatch(d) # NoMatch
                /\ JsonParse(BraceMatch(d)).ok
                /\ Truthy(JsonParse(BraceMatch(d)).v)
        THEN cur.out.kind = "json" /\ cur.out.json = JsonParse(BraceMatch(d)).v
        ELSE cur.out.kind = "preview" /\ cur.out.text = d

\* C26 witness: of two scripts with a literal the first decodes to plain
\* text and the second to an instruction; the preview of the first is
\* returned
C26_FirstScriptDecides ==
  /\ pc = "fn-done"
  /\ cur.fn = "extract"
  /\ RecoveryApplies(req.page)
  /\ req.page.scripts = <<ScAtobJunk, ScAtobMd>>
  /\ cur.out.kind = "preview"
  /\ cur.out.text = TxJunk

\* C26 as stated: the whole decoded text when it parses as JSON; else the
\* first brace-delimited substring when it parses; else the preview
C26_ParseableDecodedIsInstruction ==
  (pc = "fn-done" /\ cur.fn = "extract" /\ RecoveryApplies(req.page)) =>
    LET d == FirstDecoded(req.page)
    IN  IF JsonParse(d).ok
        THEN cur.out.kind = "json" /\ cur.out.json = JsonParse(d).v
        ELSE IF FirstBracePair(d) # NoMatch /\ JsonParse(FirstBracePair(d)).ok
        THEN cur.out.kind = "json"
             /\ cur.out.json = JsonParse(FirstBracePair(d)).v
        ELSE cur.out.kind = "preview" /\ cur.out.text = d

\* ------------------------------------------------------------------------
\* C27: at every point of a chain execution at most one page is open: the
\* page of step k is closed before the page of step k+1 is opened.
C27_AtMostOnePageOpen ==
  pc \in {"loop", "render", "extract", "solve", "submit", "endstep"} =>
    /\ pagesOpen <= 1
    /\ pc \in {"loop", "render"} => pagesOpen = 0

\* ------------------------------------------------------------------------
\* C28: heatmap resolution returns for every outcome of loading the image
\* (decoded, decode failure, load error) with a colour or null.
C28_HeatmapAlwaysReturns ==
  (pc = "fn-done" /\ cur.fn = "heatmap") =>
    /\ cur.out # Pending
    /\ cur.out.v.t \in {"str", "null"}

\* ------------------------------------------------------------------------
\* the first table of the page with a "value" column, 0 when there is none
FirstValueTable(p) ==
  LET with == {i \in 1..Len(p.tables) :
                 IndexOf(p.tables[i].headers, "value", 1) # 0}
  IN  IF with = {} THEN 0 ELSE CHOOSE i \in with : \A j \in with : i <= j

\* the fallback answer of a page: the sum of the "value" column of that
\* table, cells that are no number counting as zero; with no such table
\* the sum of the "value <number>" occurrences of the text when the
\* generation scans the text; else null
FallbackAnswer(p, scansText) ==
  IF FirstValueTable(p) # 0
  THEN LET t == p.tables[FirstValueTable(p)]
       IN  Num(SumColumn(t.rows, IndexOf(t.headers, "value", 1), 1))
  ELSE IF scansText THEN sumValues(ValueMatches(p.bodyText))
  ELSE Null

\* the step in progress comes to the fallback: no explicit answer and no
\* task predicate holds (part_001 337-376); in solveQuizPage no answer in
\* a decoded payload and no link to a CSV resource (part_001 604-690)
ReachesFallback ==
  /\ page.fails = {}
  /\ IF variant = "chain"
     THEN /\ Get(cur.instr, "answer").t = "undef"
          /\ StepFirstMatch = "fallback"
     ELSE /\ variant = "deadline"
          /\ Stage1(page).reason = Null
          /\ \A i \in 1..Len(page.links) : ~IsCsvHref(page.links[i])

\* C29: when no task predicate matches, the answer of the step is the sum
\* of the "value" column of the first table that has one, also when that
\* sum is 0; the text is scanned for "value <number>" only when no table
\* yields a sum; the answer is null when neither finds anything.
C29_FallbackAnswer ==
  [][(pc = "resolve" /\ pc' = "submit" /\ ReachesFallback) =>
       cur'.answer = FallbackAnswer(page, variant = "deadline")]_vars

\* ------------------------------------------------------------------------
\* C30: the submission of a step names, as its url, the URL of the page
\* rendered in that step, and every submission of the chain carries the
\* email and the secret of the request unchanged.
C30_SubmissionNamesRenderedUrl ==
  /\ (pc = "endstep" /\ cur.posted) => obs.lastPost.url = obs.lastRender
  /\ obs.lastPost # NoPost =>
       /\ obs.lastPost.email = req.email
       /\ obs.lastPost.secret = req.secret

\* C30 witness: a later step of a chain has posted its answer, and the URL
\* it rendered and named is not the one the chain started from
C30_LaterStepPosted ==
  /\ pc = "endstep"
  /\ cur.posted
  /\ step >= 1
  /\ obs.lastRender # req.url.s
  /\ obs.lastPost.url = obs.lastRender
  /\ obs.lastPost.email = req.email
====
